---- MODULE Spec2Model ----
(***************************************************************************)
(* Model of the dependency-manifest parsers of parse_requirement_file.py   *)
(* and of the directory scan of find_requirement_files.py.  Text is a      *)
(* sequence of one-character strings; a record is the pair                 *)
(* <<package_name, version_spec>>.                                         *)
(***************************************************************************)
EXTENDS Integers, Sequences, FiniteSets, TLC

VARIABLES
    content, pos, out, status,                    \* SpecPlain: a text parsed line by line
    reqName, reqExtras, reqOp, reqVersion, reqPc, reqResult,  \* SpecReq: one declaration line
    lockDoc, lockPc, lockOut,                     \* SpecLock: a resolved-tree document
    requirement_file, args, csvBefore, csvfile,   \* SpecMain: the files and the arguments
    pc, ecosystem, repo_name, branch, rows, error, written,  \* SpecMain: main's locals
    manData, manAt, manOut, manPc,                \* SpecManifest: a manifest document
    tree, output, walkStack, matches, scanPc, stdout,  \* SpecScan: a directory tree and its scan
    fileName, nameTag, nameAccepted, namePc,      \* SpecNames: one file name
    yarnText, yarnAt, yarnOut, yarnPc,            \* SpecYarn: a block-record lockfile
    trailBase, trailer, trailAlone, trailWith, trailPc,  \* SpecTrail: a line and its trailer
    dirName, dirExtras, dirUrl, dirTail, dirPc, dirResult,  \* SpecDirect: a direct-reference line
    scanArgs, repoTree, diskBefore, disk, target, repo_path, cleanup, clonePc, deleted, console  \* SpecClone: the scan entry point and the disk

plainVars == <<content, pos, out, status>>
reqVars == <<reqName, reqExtras, reqOp, reqVersion, reqPc, reqResult>>
lockVars == <<lockDoc, lockPc, lockOut>>
mainVars == <<requirement_file, args, csvBefore, csvfile,
              pc, ecosystem, repo_name, branch, rows, error, written>>
manifestVars == <<manData, manAt, manOut, manPc>>
scanVars == <<tree, output, walkStack, matches, scanPc, stdout>>
namesVars == <<fileName, nameTag, nameAccepted, namePc>>
yarnVars == <<yarnText, yarnAt, yarnOut, yarnPc>>
trailVars == <<trailBase, trailer, trailAlone, trailWith, trailPc>>
directVars == <<dirName, dirExtras, dirUrl, dirTail, dirPc, dirResult>>
cloneVars == <<scanArgs, repoTree, diskBefore, disk, target, repo_path, cleanup, clonePc, deleted, console>>
notPlainVars == <<reqVars, lockVars, mainVars, manifestVars, scanVars, namesVars, yarnVars, trailVars, directVars, cloneVars>>
notReqVars == <<plainVars, lockVars, mainVars, manifestVars, scanVars, namesVars, yarnVars, trailVars, directVars, cloneVars>>
notLockVars == <<plainVars, reqVars, mainVars, manifestVars, scanVars, namesVars, yarnVars, trailVars, directVars, cloneVars>>
notMainVars == <<plainVars, reqVars, lockVars, manifestVars, scanVars, namesVars, yarnVars, trailVars, directVars, cloneVars>>
notManifestVars == <<plainVars, reqVars, lockVars, mainVars, scanVars, namesVars, yarnVars, trailVars, directVars, cloneVars>>
notScanVars == <<plainVars, reqVars, lockVars, mainVars, manifestVars, namesVars, yarnVars, trailVars, directVars, cloneVars>>
notNamesVars == <<plainVars, reqVars, lockVars, mainVars, manifestVars, scanVars, yarnVars, trailVars, directVars, cloneVars>>
notYarnVars == <<plainVars, reqVars, lockVars, mainVars, manifestVars, scanVars, namesVars, trailVars, directVars, cloneVars>>
notTrailVars == <<plainVars, reqVars, lockVars, mainVars, manifestVars, scanVars, namesVars, yarnVars, directVars, cloneVars>>
notDirectVars == <<plainVars, reqVars, lockVars, mainVars, manifestVars, scanVars, namesVars, yarnVars, trailVars, cloneVars>>
notCloneVars == <<plainVars, reqVars, lockVars, mainVars, manifestVars, scanVars, namesVars, yarnVars, trailVars, directVars>>
vars == <<plainVars, reqVars, lockVars, mainVars, manifestVars, scanVars, namesVars, yarnVars, trailVars, directVars, cloneVars>>

(***************************************************************************)
(* Characters and the str methods the parsers use.                         *)
(***************************************************************************)
LowerLetters ==
    {"a", "b", "c", "d", "e", "f", "g", "h", "i", "j", "k", "l", "m",
     "n", "o", "p", "q", "r", "s", "t", "u", "v", "w", "x", "y", "z"}

UpperLetters ==
    {"A", "B", "C", "D", "E", "F", "G", "H", "I", "J", "K", "L", "M",
     "N", "O", "P", "Q", "R", "S", "T", "U", "V", "W", "X", "Y", "Z"}

Digits == {"0", "1", "2", "3", "4", "5", "6", "7", "8", "9"}

\* str.strip(), str.split() and the pattern's \s agree on these.
IsSpace(c) == c \in {" ", "\t", "\n", "\r"}

Min(S) == CHOOSE x \in S : \A y \in S : x <= y
Max(S) == CHOOSE x \in S : \A y \in S : x >= y

RECURSIVE LStrip(_)
LStrip(s) ==
    IF s = <<>> THEN s
    ELSE IF IsSpace(Head(s)) THEN LStrip(Tail(s)) ELSE s

RECURSIVE RStrip(_)
RStrip(s) ==
    IF s = <<>> THEN s
    ELSE IF IsSpace(s[Len(s)]) THEN RStrip(SubSeq(s, 1, Len(s) - 1)) ELSE s

Strip(s) == RStrip(LStrip(s))

StartsWith(s, p) == Len(s) >= Len(p) /\ SubSeq(s, 1, Len(p)) = p

EndsWith(s, p) == Len(s) >= Len(p) /\ SubSeq(s, Len(s) - Len(p) + 1, Len(s)) = p

Occurrences(s, p) == {i \in 1..(Len(s) - Len(p) + 1) : SubSeq(s, i, i + Len(p) - 1) = p}

\* str.find, 1-based; 0 when p does not occur in s.
Find(s, p) == IF Occurrences(s, p) = {} THEN 0 ELSE Min(Occurrences(s, p))

\* str.rfind, 1-based; 0 when p does not occur in s.
RFind(s, p) == IF Occurrences(s, p) = {} THEN 0 ELSE Max(Occurrences(s, p))

Contains(s, p) == Occurrences(s, p) # {}

\* s.split(p, 1)[0] and s.split(p, 1)[1], for p occurring in s.
BeforeFirst(s, p) == SubSeq(s, 1, Find(s, p) - 1)
AfterFirst(s, p) == SubSeq(s, Find(s, p) + Len(p), Len(s))

\* str.splitlines(): a trailing line break opens no further line.
RECURSIVE SplitLines(_)
SplitLines(s) ==
    IF s = <<>> THEN <<>>
    ELSE IF Find(s, <<"\n">>) = 0 THEN <<s>>
    ELSE <<BeforeFirst(s, <<"\n">>)>> \o SplitLines(AfterFirst(s, <<"\n">>))

\* str.split()[0]: the first whitespace-delimited token of a text that has one.
FirstToken(s) ==
    LET t == LStrip(s)
        stops == {i \in 1..Len(t) : IsSpace(t[i])}
    IN  IF stops = {} THEN t ELSE SubSeq(t, 1, Min(stops) - 1)

(***************************************************************************)
(* More str methods.                                                       *)
(***************************************************************************)
UpperSeq ==
    <<"A", "B", "C", "D", "E", "F", "G", "H", "I", "J", "K", "L", "M",
      "N", "O", "P", "Q", "R", "S", "T", "U", "V", "W", "X", "Y", "Z">>

LowerSeq ==
    <<"a", "b", "c", "d", "e", "f", "g", "h", "i", "j", "k", "l", "m",
      "n", "o", "p", "q", "r", "s", "t", "u", "v", "w", "x", "y", "z">>

LowerChar(c) ==
    IF c \in UpperLetters
    THEN LowerSeq[CHOOSE i \in 1..Len(UpperSeq) : UpperSeq[i] = c]
    ELSE c

\* str.lower()
Lower(s) == [i \in 1..Len(s) |-> LowerChar(s[i])]

\* str.split(sep): the pieces between the occurrences of sep, left to right.
RECURSIVE Split(_, _)
Split(s, sep) ==
    IF Find(s, sep) = 0 THEN <<s>>
    ELSE <<BeforeFirst(s, sep)>> \o Split(AfterFirst(s, sep), sep)

\* str.strip('"')
RECURSIVE StripQuotes(_)
StripQuotes(s) ==
    IF s = <<>> THEN s
    ELSE IF Head(s) = "\"" THEN StripQuotes(Tail(s))
    ELSE IF s[Len(s)] = "\"" THEN StripQuotes(SubSeq(s, 1, Len(s) - 1))
    ELSE s

RECURSIVE Flatten(_)
Flatten(seqs) == IF seqs = <<>> THEN <<>> ELSE Head(seqs) \o Flatten(Tail(seqs))

(***************************************************************************)
(* parse_python_requirements: the requirement-line pattern req_regex.      *)
(***************************************************************************)
\* [A-Za-z0-9_.-]
NameChars == LowerLetters \cup UpperLetters \cup Digits \cup {"_", ".", "-"}

\* The alternation (?P<op>...), in the order the pattern tries it.
ReqOperators ==
    << <<"=", "=">>, <<"~", "=">>, <<">", "=">>, <<"<", "=">>, <<"!", "=">>,
       <<"=", "=", "=">>, <<">">>, <<"<">> >>

\* Length of the longest prefix of s made of name characters: [A-Za-z0-9_.-]+
NameSpan(s) ==
    LET stops == {i \in 1..Len(s) : s[i] \notin NameChars}
    IN  IF stops = {} THEN Len(s) ELSE Min(stops) - 1

\* Length of the longest prefix of s made of version characters: [^;\s]+
VersionSpan(s) ==
    LET stops == {i \in 1..Len(s) : IsSpace(s[i]) \/ s[i] = ";"}
    IN  IF stops = {} THEN Len(s) ELSE Min(stops) - 1

\* (?P<extras>\[.*\])? at the start of s: how many characters it consumes.
\* .* is greedy, so the bracket runs to the last "]" of the line.
ExtrasLen(s) ==
    IF s # <<>> /\ Head(s) = "[" /\ Contains(s, <<"]">>)
    THEN RFind(s, <<"]">>)
    ELSE 0

\* The version captured when operator number k is tried at the start of s
\* (after \s*): <<>> when that alternative fails.
VersionAfter(s, k) ==
    LET op == ReqOperators[k]
    IN  IF StartsWith(s, op)
        THEN LET rest == LStrip(SubSeq(s, Len(op) + 1, Len(s)))
             IN  SubSeq(rest, 1, VersionSpan(rest))
        ELSE <<>>

\* (\s*(?P<op>...)\s*(?P<version>[^;\s]+))? at the start of s: the first
\* alternative that lets a version follow wins; <<>> when the group is skipped.
MatchVersion(s) ==
    LET t == LStrip(s)
        ok == {k \in 1..Len(ReqOperators) : VersionAfter(t, k) # <<>>}
    IN  IF ok = {} THEN <<>> ELSE VersionAfter(t, Min(ok))

\* req_regex.match(line): [matched, name, version].
ReqRegexMatch(line) ==
    LET s == LStrip(line)
        n == NameSpan(s)
        afterName == SubSeq(s, n + 1, Len(s))
        afterExtras == SubSeq(afterName, ExtrasLen(afterName) + 1, Len(afterName))
    IN  IF n = 0
        THEN [matched |-> FALSE, name |-> <<>>, version |-> <<>>]
        ELSE [matched |-> TRUE, name |-> SubSeq(s, 1, n),
              version |-> MatchVersion(afterExtras)]

(***************************************************************************)
(* parse_python_requirements: one iteration of the loop over the lines.    *)
(***************************************************************************)
OptionPrefixesA ==
    { <<"-", "r">>,
      <<"-", "-", "r", "e", "q", "u", "i", "r", "e", "m", "e", "n", "t">>,
      <<"-", "-", "f", "i", "n", "d", "-", "l", "i", "n", "k", "s">>,
      <<"-", "-", "e", "x", "t", "r", "a", "-", "i", "n", "d", "e", "x", "-", "u", "r", "l">> }

OptionPrefixesB ==
    { <<"-", "-", "h", "a", "s", "h">>,
      <<"-", "-", "o", "n", "l", "y", "-", "b", "i", "n", "a", "r", "y">>,
      <<"-", "-", "p", "r", "e", "f", "e", "r", "-", "b", "i", "n", "a", "r", "y">> }

StartsWithAny(s, prefixes) == \E p \in prefixes : StartsWith(s, p)

\* A comment strip that cuts at the first "#" wherever it stands, as the
\* pattern \s*# would.
StripInlineCommentAnyHash(line) ==
    LET hashes == {j \in 1..Len(line) : line[j] = "#"}
    IN  IF hashes = {} THEN Strip(line)
        ELSE Strip(SubSeq(line, 1, Min(hashes) - 1))

\* re.split(r"\s+#", line, maxsplit=1)[0].strip(): cut at the first "#" that
\* follows whitespace.
StripInlineComment(line) ==
    LET hashes == {j \in 2..Len(line) : line[j] = "#" /\ IsSpace(line[j - 1])}
    IN  IF hashes = {} THEN Strip(line)
        ELSE Strip(SubSeq(line, 1, Min(hashes) - 1))

\* if ";" in line: line = line.split(";", 1)[0].strip()
StripMarker(line) ==
    IF Contains(line, <<";">>) THEN Strip(BeforeFirst(line, <<";">>)) ELSE line

\* The line as it stands when the direct-reference test is made.
Cleaned(raw_line) == StripMarker(StripInlineComment(Strip(raw_line)))

IsSkipped(raw_line) ==
    LET line == Strip(raw_line)
    IN  \/ line = <<>>
        \/ StartsWith(line, <<"#">>)
        \/ StartsWithAny(line, OptionPrefixesA)
        \/ StartsWithAny(line, OptionPrefixesB)

IsDirectReference(raw_line) == ~IsSkipped(raw_line) /\ Contains(Cleaned(raw_line), <<" ", "@">>)

\* name, url = [part.strip() for part in line.split("@", 1)]
DirectName(raw_line) == Strip(BeforeFirst(Cleaned(raw_line), <<"@">>))
DirectUrl(raw_line) == Strip(AfterFirst(Cleaned(raw_line), <<"@">>))

\* What one iteration does with raw_line: "skip" (continue), "yield" of
\* <<pkg, version>>, or "raise" (name.split()[0] on a name with no token).
ParseLine(raw_line) ==
    IF IsSkipped(raw_line)
    THEN [kind |-> "skip", via |-> "skip", rec |-> <<>>]
    ELSE IF IsDirectReference(raw_line)
    THEN IF DirectName(raw_line) = <<>>
         THEN [kind |-> "raise", via |-> "direct", rec |-> <<>>]
         ELSE [kind |-> "yield", via |-> "direct",
               rec |-> <<FirstToken(DirectName(raw_line)),
                         <<"@", " ">> \o DirectUrl(raw_line)>>]
    ELSE LET m == ReqRegexMatch(Cleaned(raw_line))
         IN  IF ~m.matched
             THEN [kind |-> "yield", via |-> "raw", rec |-> <<Cleaned(raw_line), <<>>>>]
             ELSE [kind |-> "yield", via |-> "regex", rec |-> <<m.name, m.version>>]

\* list(parse_python_requirements(lines)): the records, or the exception that
\* ends the generator and list() with it.
RECURSIVE parse_python_requirements(_)
parse_python_requirements(lines) ==
    IF lines = <<>> THEN [raised |-> FALSE, records |-> <<>>]
    ELSE LET r == ParseLine(Head(lines))
             rest == parse_python_requirements(Tail(lines))
         IN  IF r.kind = "raise" THEN [raised |-> TRUE, records |-> <<>>]
             ELSE IF rest.raised THEN rest
             ELSE IF r.kind = "skip" THEN rest
             ELSE [raised |-> FALSE, records |-> <<r.rec>> \o rest.records]

(***************************************************************************)
(* Decoded JSON, as json.load returns it.  A value is [t, s, items]: a     *)
(* string ("str", its text in s), a dict ("dict", its entries in declared  *)
(* order in items, a sequence of <<key, value>> with distinct keys), or    *)
(* anything else ("other": a number, a list, null; s is what str() makes   *)
(* of it).                                                                 *)
(***************************************************************************)
JStr(text) == [t |-> "str", s |-> text, items |-> <<>>]
JDict(entries) == [t |-> "dict", s |-> <<>>, items |-> entries]
JOther(text) == [t |-> "other", s |-> text, items |-> <<>>]

IsDict(v) == v.t = "dict"
IsStr(v) == v.t = "str"

Keys(d) == {d.items[i][1] : i \in 1..Len(d.items)}

\* d.get(key, default) for a dict d.
Get(d, key, default) ==
    IF key \in Keys(d)
    THEN d.items[CHOOSE i \in 1..Len(d.items) : d.items[i][1] = key][2]
    ELSE default

KeyVersion == <<"v", "e", "r", "s", "i", "o", "n">>
KeyDependencies == <<"d", "e", "p", "e", "n", "d", "e", "n", "c", "i", "e", "s">>

(***************************************************************************)
(* parse_package_lock and walk_npm_lock_dependencies.                      *)
(***************************************************************************)
\* walk_npm_lock_dependencies(deps), deps given by its entries.  The values
\* found under "version" are scalars, so str() of one is its text.
RECURSIVE walk_npm_lock_dependencies(_)
walk_npm_lock_dependencies(deps) ==
    IF deps = <<>> THEN <<>>
    ELSE LET name == Head(deps)[1]
             info == Head(deps)[2]
             version == IF IsDict(info) THEN Get(info, KeyVersion, JStr(<<>>)).s ELSE <<>>
             nested == IF IsDict(info) /\ IsDict(Get(info, KeyDependencies, JOther(<<>>)))
                       THEN walk_npm_lock_dependencies(Get(info, KeyDependencies, JOther(<<>>)).items)
                       ELSE <<>>
         IN  nested \o <<<<name, version>>>> \o walk_npm_lock_dependencies(Tail(deps))

\* The rows of parse_package_lock for a decoded document that is a dict.
PackageLockRows(data) ==
    LET deps == Get(data, KeyDependencies, JDict(<<>>))
    IN  IF IsDict(deps) THEN walk_npm_lock_dependencies(deps.items) ELSE <<>>

(***************************************************************************)
(* parse_package_json.                                                     *)
(***************************************************************************)
ManifestSections ==
    << <<"d", "e", "p", "e", "n", "d", "e", "n", "c", "i", "e", "s">>,
       <<"d", "e", "v", "D", "e", "p", "e", "n", "d", "e", "n", "c", "i", "e", "s">>,
       <<"p", "e", "e", "r", "D", "e", "p", "e", "n", "d", "e", "n", "c", "i", "e", "s">>,
       <<"o", "p", "t", "i", "o", "n", "a", "l", "D", "e", "p", "e", "n", "d", "e", "n", "c", "i", "e", "s">>,
       <<"b", "u", "n", "d", "l", "e", "d", "D", "e", "p", "e", "n", "d", "e", "n", "c", "i", "e", "s">> >>

\* A reading of a group that keeps every entry, whatever its value.
RECURSIVE StringEntriesAnyValue(_)
StringEntriesAnyValue(entries) ==
    IF entries = <<>> THEN <<>>
    ELSE <<<<Head(entries)[1], Head(entries)[2].s>>>> \o StringEntriesAnyValue(Tail(entries))

\* The records of one group: the entries whose value is a string.
RECURSIVE StringEntries(_)
StringEntries(entries) ==
    IF entries = <<>> THEN <<>>
    ELSE (IF IsStr(Head(entries)[2])
          THEN <<<<Head(entries)[1], Head(entries)[2].s>>>>
          ELSE <<>>) \o StringEntries(Tail(entries))

SectionRows(data, section) ==
    LET deps == Get(data, section, JDict(<<>>))
    IN  IF IsDict(deps) THEN StringEntries(deps.items) ELSE <<>>

\* The rows of parse_package_json for a decoded document that is a dict.
PackageJsonRows(data) ==
    Flatten([k \in 1..Len(ManifestSections) |-> SectionRows(data, ManifestSections[k])])

(***************************************************************************)
(* parse_yarn_lock.                                                        *)
(***************************************************************************)
VersionKey == <<"v", "e", "r", "s", "i", "o", "n", " ">>

\* lines = [line.rstrip() for line in block.splitlines() if line.strip()]
RECURSIVE BlockLines(_)
BlockLines(ls) ==
    IF ls = <<>> THEN <<>>
    ELSE (IF Strip(Head(ls)) # <<>> THEN <<RStrip(Head(ls))>> ELSE <<>>)
           \o BlockLines(Tail(ls))

\* A version lookup without the break: the last matching line wins.
RECURSIVE BlockVersionLast(_)
BlockVersionLast(body) ==
    IF body = <<>> THEN <<>>
    ELSE IF StartsWith(Strip(body[Len(body)]), VersionKey)
    THEN StripQuotes(Strip(AfterFirst(Strip(body[Len(body)]), <<" ">>)))
    ELSE BlockVersionLast(SubSeq(body, 1, Len(body) - 1))

\* The version of a block: taken from the first of its lines after the
\* header whose trimmed form starts with "version ".
RECURSIVE BlockVersion(_)
BlockVersion(body) ==
    IF body = <<>> THEN <<>>
    ELSE IF StartsWith(Strip(Head(body)), VersionKey)
    THEN StripQuotes(Strip(AfterFirst(Strip(Head(body)), <<" ">>)))
    ELSE BlockVersion(Tail(body))

\* A cut at the first "@" (find in place of rfind).
SpecNameFirstAt(spec) ==
    IF Find(spec, <<"@">>) <= 1 THEN spec
    ELSE SubSeq(spec, 1, Find(spec, <<"@">>) - 1)

\* spec -> name: cut at the last "@" unless it is the first character.
SpecName(spec) ==
    IF RFind(spec, <<"@">>) <= 1 THEN spec
    ELSE SubSeq(spec, 1, RFind(spec, <<"@">>) - 1)

RECURSIVE SpecRows(_, _)
SpecRows(specs, version) ==
    IF specs = <<>> THEN <<>>
    ELSE (IF StripQuotes(Strip(Head(specs))) = <<>> THEN <<>>
          ELSE <<<<SpecName(StripQuotes(Strip(Head(specs)))), version>>>>)
           \o SpecRows(Tail(specs), version)

BlockRows(block) ==
    LET ls == BlockLines(SplitLines(block))
    IN  IF ls = <<>> THEN <<>>
        ELSE IF ~EndsWith(ls[1], <<":">>) THEN <<>>
        ELSE SpecRows(Split(SubSeq(ls[1], 1, Len(ls[1]) - 1), <<",">>),
                      BlockVersion(Tail(ls)))

\* list(parse_yarn_lock(path)) for a file whose text is given.
YarnLockRows(text) ==
    LET blocks == Split(text, <<"\n", "\n">>)
    IN  Flatten([k \in 1..Len(blocks) |-> BlockRows(blocks[k])])

(***************************************************************************)
(* infer_ecosystem.                                                        *)
(***************************************************************************)
PYTHON_HINTS ==
    { <<"r", "e", "q", "u", "i", "r", "e", "m", "e", "n", "t", "s", ".", "t", "x", "t">>,
      <<"r", "e", "q", "u", "i", "r", "e", "m", "e", "n", "t", "s", "-", "d", "e", "v", ".", "t", "x", "t">>,
      <<"r", "e", "q", "u", "i", "r", "e", "m", "e", "n", "t", "s", ".", "i", "n">>,
      <<"c", "o", "n", "s", "t", "r", "a", "i", "n", "t", "s", ".", "t", "x", "t">>,
      <<"e", "n", "v", "i", "r", "o", "n", "m", "e", "n", "t", ".", "y", "m", "l">>,
      <<"e", "n", "v", "i", "r", "o", "n", "m", "e", "n", "t", ".", "y", "a", "m", "l">>,
      <<"s", "e", "t", "u", "p", ".", "p", "y">>,
      <<"s", "e", "t", "u", "p", ".", "c", "f", "g">>,
      <<"p", "y", "p", "r", "o", "j", "e", "c", "t", ".", "t", "o", "m", "l">>,
      <<"p", "o", "e", "t", "r", "y", ".", "l", "o", "c", "k">>,
      <<"p", "d", "m", ".", "l", "o", "c", "k">>,
      <<"p", "d", "m", ".", "t", "o", "m", "l">>,
      <<"p", "i", "p", "f", "i", "l", "e">>,
      <<"p", "i", "p", "f", "i", "l", "e", ".", "l", "o", "c", "k">> }

NODE_HINTS ==
    { <<"p", "a", "c", "k", "a", "g", "e", ".", "j", "s", "o", "n">>,
      <<"p", "a", "c", "k", "a", "g", "e", "-", "l", "o", "c", "k", ".", "j", "s", "o", "n">>,
      <<"y", "a", "r", "n", ".", "l", "o", "c", "k">>,
      <<"p", "n", "p", "m", "-", "l", "o", "c", "k", ".", "y", "a", "m", "l">>,
      <<"p", "n", "p", "m", "-", "l", "o", "c", "k", ".", "y", "m", "l">>,
      <<"b", "u", "n", ".", "l", "o", "c", "k", "b">> }

RUBY_NAMES == { <<"g", "e", "m", "f", "i", "l", "e">>,
      <<"g", "e", "m", "f", "i", "l", "e", ".", "l", "o", "c", "k">> }
DOTNET_SUFFIXES == { <<".", "c", "s", "p", "r", "o", "j">>,
      <<".", "f", "s", "p", "r", "o", "j">>,
      <<".", "v", "b", "p", "r", "o", "j">> }
DOTNET_NAMES == { <<"p", "a", "c", "k", "a", "g", "e", "s", ".", "c", "o", "n", "f", "i", "g">> }
JAVA_NAMES == { <<"p", "o", "m", ".", "x", "m", "l">>,
      <<"b", "u", "i", "l", "d", ".", "g", "r", "a", "d", "l", "e">>,
      <<"b", "u", "i", "l", "d", ".", "g", "r", "a", "d", "l", "e", ".", "k", "t", "s">> }
RUST_NAMES == { <<"c", "a", "r", "g", "o", ".", "t", "o", "m", "l">>,
      <<"c", "a", "r", "g", "o", ".", "l", "o", "c", "k">> }
GO_NAMES == { <<"g", "o", ".", "m", "o", "d">>,
      <<"g", "o", ".", "s", "u", "m">> }
PHP_NAMES == { <<"c", "o", "m", "p", "o", "s", "e", "r", ".", "j", "s", "o", "n">>,
      <<"c", "o", "m", "p", "o", "s", "e", "r", ".", "l", "o", "c", "k">> }

EndsWithAny(s, suffixes) == \E x \in suffixes : EndsWith(s, x)

\* A classifier that compares the name as given, not lower-cased.
infer_ecosystem_cased(name) ==
    LET lower_name == name
    IN  IF lower_name \in PYTHON_HINTS \/ EndsWith(lower_name, <<".", "t", "x", "t">>) THEN <<"p", "y", "t", "h", "o", "n">>
        ELSE IF lower_name \in NODE_HINTS THEN <<"n", "o", "d", "e", "j", "s">>
        ELSE IF lower_name \in RUBY_NAMES THEN <<"r", "u", "b", "y">>
        ELSE IF EndsWithAny(lower_name, DOTNET_SUFFIXES) \/ lower_name \in DOTNET_NAMES THEN <<"d", "o", "t", "n", "e", "t">>
        ELSE IF lower_name \in JAVA_NAMES THEN <<"j", "a", "v", "a">>
        ELSE IF lower_name \in RUST_NAMES THEN <<"r", "u", "s", "t">>
        ELSE IF lower_name \in GO_NAMES THEN <<"g", "o">>
        ELSE IF lower_name \in PHP_NAMES THEN <<"p", "h", "p">>
        ELSE <<"u", "n", "k", "n", "o", "w", "n">>

\* infer_ecosystem(requirement_file), from the file's name.
infer_ecosystem(name) ==
    LET lower_name == Lower(name)
    IN  IF lower_name \in PYTHON_HINTS \/ EndsWith(lower_name, <<".", "t", "x", "t">>) THEN <<"p", "y", "t", "h", "o", "n">>
        ELSE IF lower_name \in NODE_HINTS THEN <<"n", "o", "d", "e", "j", "s">>
        ELSE IF lower_name \in RUBY_NAMES THEN <<"r", "u", "b", "y">>
        ELSE IF EndsWithAny(lower_name, DOTNET_SUFFIXES) \/ lower_name \in DOTNET_NAMES THEN <<"d", "o", "t", "n", "e", "t">>
        ELSE IF lower_name \in JAVA_NAMES THEN <<"j", "a", "v", "a">>
        ELSE IF lower_name \in RUST_NAMES THEN <<"r", "u", "s", "t">>
        ELSE IF lower_name \in GO_NAMES THEN <<"g", "o">>
        ELSE IF lower_name \in PHP_NAMES THEN <<"p", "h", "p">>
        ELSE <<"u", "n", "k", "n", "o", "w", "n">>

(***************************************************************************)
(* parse_requirements: the dispatch and the generic fallback.              *)
(***************************************************************************)
PackageJsonName == <<"p", "a", "c", "k", "a", "g", "e", ".", "j", "s", "o", "n">>
PackageLockName == <<"p", "a", "c", "k", "a", "g", "e", "-", "l", "o", "c", "k", ".", "j", "s", "o", "n">>
YarnLockName == <<"y", "a", "r", "n", ".", "l", "o", "c", "k">>

\* Fallback: simple line-per-package parsing.
RECURSIVE FallbackRows(_)
FallbackRows(ls) ==
    IF ls = <<>> THEN <<>>
    ELSE (IF Strip(Head(ls)) # <<>> /\ ~StartsWith(LStrip(Head(ls)), <<"#">>)
          THEN <<<<Strip(Head(ls)), <<>>>>>>
          ELSE <<>>) \o FallbackRows(Tail(ls))

\* A dispatch in which every nodejs file that is no JSON document is read as
\* a block-record lockfile.
DispatchYarnForOtherNode(eco, name) ==
    IF eco = <<"p", "y", "t", "h", "o", "n">> THEN "plain"
    ELSE IF eco = <<"n", "o", "d", "e", "j", "s">>
    THEN IF Lower(name) = PackageJsonName THEN "manifest"
         ELSE IF Lower(name) = PackageLockName THEN "tree"
         ELSE "blocks"
    ELSE "fallback"

\* The branch parse_requirements takes for (ecosystem, file name).
Dispatch(eco, name) ==
    IF eco = <<"p", "y", "t", "h", "o", "n">> THEN "plain"
    ELSE IF eco = <<"n", "o", "d", "e", "j", "s">> /\ Lower(name) = PackageJsonName THEN "manifest"
    ELSE IF eco = <<"n", "o", "d", "e", "j", "s">> /\ Lower(name) = PackageLockName THEN "tree"
    ELSE IF eco = <<"n", "o", "d", "e", "j", "s">> /\ Lower(name) = YarnLockName THEN "blocks"
    ELSE "fallback"

(***************************************************************************)
(* find_requirement_files.py: the tables and is_requirement_file.          *)
(***************************************************************************)
EXACT_FILENAMES ==
    { <<"r", "e", "q", "u", "i", "r", "e", "m", "e", "n", "t", "s", ".", "t", "x", "t">>,
      <<"r", "e", "q", "u", "i", "r", "e", "m", "e", "n", "t", "s", "-", "d", "e", "v", ".", "t", "x", "t">>,
      <<"r", "e", "q", "u", "i", "r", "e", "m", "e", "n", "t", "s", ".", "i", "n">>,
      <<"c", "o", "n", "s", "t", "r", "a", "i", "n", "t", "s", ".", "t", "x", "t">>,
      <<"e", "n", "v", "i", "r", "o", "n", "m", "e", "n", "t", ".", "y", "m", "l">>,
      <<"e", "n", "v", "i", "r", "o", "n", "m", "e", "n", "t", ".", "y", "a", "m", "l">>,
      <<"p", "y", "p", "r", "o", "j", "e", "c", "t", ".", "t", "o", "m", "l">>,
      <<"p", "o", "e", "t", "r", "y", ".", "l", "o", "c", "k">>,
      <<"p", "d", "m", ".", "l", "o", "c", "k">>,
      <<"p", "d", "m", ".", "t", "o", "m", "l">>,
      <<"p", "i", "p", "f", "i", "l", "e">>,
      <<"p", "i", "p", "f", "i", "l", "e", ".", "l", "o", "c", "k">>,
      <<"s", "e", "t", "u", "p", ".", "p", "y">>,
      <<"s", "e", "t", "u", "p", ".", "c", "f", "g">>,
      <<"p", "a", "c", "k", "a", "g", "e", ".", "j", "s", "o", "n">>,
      <<"p", "a", "c", "k", "a", "g", "e", "-", "l", "o", "c", "k", ".", "j", "s", "o", "n">>,
      <<"y", "a", "r", "n", ".", "l", "o", "c", "k">>,
      <<"p", "n", "p", "m", "-", "l", "o", "c", "k", ".", "y", "a", "m", "l">>,
      <<"p", "n", "p", "m", "-", "l", "o", "c", "k", ".", "y", "m", "l">>,
      <<"p", "o", "m", ".", "x", "m", "l">>,
      <<"b", "u", "i", "l", "d", ".", "g", "r", "a", "d", "l", "e">>,
      <<"b", "u", "i", "l", "d", ".", "g", "r", "a", "d", "l", "e", ".", "k", "t", "s">>,
      <<"g", "r", "a", "d", "l", "e", ".", "l", "o", "c", "k", "f", "i", "l", "e">>,
      <<"g", "e", "m", "f", "i", "l", "e">>,
      <<"g", "e", "m", "f", "i", "l", "e", ".", "l", "o", "c", "k">>,
      <<"c", "o", "m", "p", "o", "s", "e", "r", ".", "j", "s", "o", "n">>,
      <<"c", "o", "m", "p", "o", "s", "e", "r", ".", "l", "o", "c", "k">>,
      <<"c", "a", "r", "g", "o", ".", "t", "o", "m", "l">>,
      <<"c", "a", "r", "g", "o", ".", "l", "o", "c", "k">>,
      <<"g", "o", ".", "m", "o", "d">>,
      <<"g", "o", ".", "s", "u", "m">>,
      <<"p", "a", "c", "k", "a", "g", "e", "s", ".", "c", "o", "n", "f", "i", "g">>,
      <<"n", "u", "g", "e", "t", ".", "c", "o", "n", "f", "i", "g">>,
      <<"d", "o", "c", "k", "e", "r", "-", "c", "o", "m", "p", "o", "s", "e", ".", "y", "m", "l">>,
      <<"d", "o", "c", "k", "e", "r", "-", "c", "o", "m", "p", "o", "s", "e", ".", "y", "a", "m", "l">>,
      <<"c", "o", "n", "d", "a", ".", "y", "m", "l">>,
      <<"c", "o", "n", "d", "a", ".", "y", "a", "m", "l">> }

FILENAME_PATTERNS ==
    { <<"*", ".", "c", "s", "p", "r", "o", "j">>,
      <<"*", ".", "f", "s", "p", "r", "o", "j">>,
      <<"*", ".", "v", "b", "p", "r", "o", "j">>,
      <<"r", "e", "q", "u", "i", "r", "e", "m", "e", "n", "t", "s", "-", "*", ".", "t", "x", "t">>,
      <<"*", ".", "d", "e", "p", "s", ".", "j", "s", "o", "n">> }

SKIP_DIRECTORIES ==
    { <<".", "g", "i", "t">>,
      <<".", "h", "g">>,
      <<".", "s", "v", "n">>,
      <<".", "i", "d", "e", "a">>,
      <<".", "v", "s", "c", "o", "d", "e">>,
      <<"_", "_", "p", "y", "c", "a", "c", "h", "e", "_", "_">>,
      <<"n", "o", "d", "e", "_", "m", "o", "d", "u", "l", "e", "s">> }

\* fnmatch.fnmatch(name, pattern) for a pattern of literal characters, "*"
\* and "?": "*" stands for any text, "?" for any one character.
RECURSIVE FnMatch(_, _)
FnMatch(name, pattern) ==
    IF pattern = <<>> THEN name = <<>>
    ELSE IF Head(pattern) = "*"
    THEN \E k \in 0..Len(name) : FnMatch(SubSeq(name, k + 1, Len(name)), Tail(pattern))
    ELSE IF Head(pattern) = "?"
    THEN name # <<>> /\ FnMatch(Tail(name), Tail(pattern))
    ELSE name # <<>> /\ Head(name) = Head(pattern) /\ FnMatch(Tail(name), Tail(pattern))

is_requirement_file(filename) ==
    LET lower_name == Lower(filename)
    IN  \/ lower_name \in EXACT_FILENAMES
        \/ \E pattern \in FILENAME_PATTERNS : FnMatch(lower_name, pattern)

(***************************************************************************)
(* Paths: a relative path is the sequence of its components; str(path)     *)
(* joins them with "/".  Texts compare by code point, paths component by   *)
(* component.                                                              *)
(***************************************************************************)
\* The line break and the printable ASCII characters other than the
\* backquote, in code-point order.
CodePoints ==
    <<"\n",
      " ", "!", "\"", "#", "$", "%", "&", "'", "(", ")", "*", "+", ",", "-", ".", "/",
      "0", "1", "2", "3", "4", "5", "6", "7", "8", "9", ":", ";", "<", "=", ">", "?",
      "@", "A", "B", "C", "D", "E", "F", "G", "H", "I", "J", "K", "L", "M", "N", "O",
      "P", "Q", "R", "S", "T", "U", "V", "W", "X", "Y", "Z", "[", "\\", "]", "^", "_",
      "a", "b", "c", "d", "e", "f", "g", "h", "i", "j", "k", "l", "m", "n", "o",
      "p", "q", "r", "s", "t", "u", "v", "w", "x", "y", "z", "{", "|", "}", "~" >>

Ord(c) == CHOOSE i \in 1..Len(CodePoints) : CodePoints[i] = c

\* s < t for two texts (str.__lt__).
RECURSIVE TextLess(_, _)
TextLess(s, t) ==
    IF t = <<>> THEN FALSE
    ELSE IF s = <<>> THEN TRUE
    ELSE IF Head(s) = Head(t) THEN TextLess(Tail(s), Tail(t))
    ELSE Ord(Head(s)) < Ord(Head(t))

\* p < q for two paths (PurePath.__lt__): the lists of components compare
\* element by element.
RECURSIVE PathLess(_, _)
PathLess(p, q) ==
    IF q = <<>> THEN FALSE
    ELSE IF p = <<>> THEN TRUE
    ELSE IF Head(p) = Head(q) THEN PathLess(Tail(p), Tail(q))
    ELSE TextLess(Head(p), Head(q))

\* str(path)
RECURSIVE PathStr(_)
PathStr(p) ==
    IF p = <<>> THEN <<".">>
    ELSE IF Len(p) = 1 THEN p[1]
    ELSE p[1] \o <<"/">> \o PathStr(Tail(p))

\* sorted(paths) for a list of distinct paths.
RECURSIVE SortedPaths(_)
SortedPaths(S) ==
    IF S = {} THEN <<>>
    ELSE LET least == CHOOSE p \in S : \A q \in S \ {p} : PathLess(p, q)
         IN  <<least>> \o SortedPaths(S \ {least})

Range(s) == {s[i] : i \in 1..Len(s)}

(***************************************************************************)
(* SpecPlain: the plain-list parser run line by line over a text.          *)
(***************************************************************************)
MaxContentLen == 4

PlainAlphabet == {"r", "-", "=", " ", "#", "@", ";", "\n"}

RECURSIVE Texts(_, _)
Texts(alphabet, n) ==
    IF n = 0 THEN {<<>>}
    ELSE LET shorter == Texts(alphabet, n - 1)
         IN  shorter \cup {Append(s, c) : s \in {t \in shorter : Len(t) = n - 1}, c \in alphabet}

lines == SplitLines(content)

\* The variables of a specification that is not the one being run.
IdlePlain == content = <<>> /\ pos = 0 /\ out = <<>> /\ status = "idle"
IdleReq ==
    /\ reqName = <<>> /\ reqExtras = <<>> /\ reqOp = 0 /\ reqVersion = <<>>
    /\ reqPc = "idle" /\ reqResult = <<>>
IdleLock == lockDoc = <<>> /\ lockPc = "idle" /\ lockOut = <<>>
IdleMain ==
    /\ requirement_file = <<>> /\ args = <<>> /\ csvBefore = <<>> /\ csvfile = <<>>
    /\ pc = "idle" /\ ecosystem = <<>> /\ repo_name = <<>> /\ branch = "none"
    /\ rows = <<>> /\ error = "none" /\ written = 0

IdleManifest == manData = <<>> /\ manAt = 0 /\ manOut = <<>> /\ manPc = "idle"

IdleScan == tree = {} /\ output = "" /\ walkStack = <<>> /\ matches = <<>> /\ scanPc = "idle" /\ stdout = <<>>

IdleNames == fileName = <<>> /\ nameTag = <<>> /\ nameAccepted = FALSE /\ namePc = "idle"

IdleYarn == yarnText = <<>> /\ yarnAt = 0 /\ yarnOut = <<>> /\ yarnPc = "idle"

IdleTrail == trailBase = <<>> /\ trailer = <<>> /\ trailAlone = <<>> /\ trailWith = <<>> /\ trailPc = "idle"

IdleDirect == dirName = <<>> /\ dirExtras = <<>> /\ dirUrl = <<>> /\ dirTail = <<>> /\ dirPc = "idle" /\ dirResult = <<>>

IdleClone == scanArgs = <<>> /\ repoTree = {} /\ diskBefore = {} /\ disk = {} /\ target = "" /\ repo_path = "" /\ cleanup = FALSE /\ clonePc = "idle" /\ deleted = {} /\ console = <<>>

InitPlain ==
    /\ content \in Texts(PlainAlphabet, MaxContentLen)
    /\ pos = 1
    /\ out = <<>>
    /\ status = "running"
    /\ IdleReq /\ IdleLock /\ IdleMain /\ IdleManifest /\ IdleScan /\ IdleNames /\ IdleYarn /\ IdleTrail /\ IdleDirect /\ IdleClone

AtLine == status = "running" /\ pos <= Len(lines)

SkipLine ==
    /\ AtLine
    /\ ParseLine(lines[pos]).kind = "skip"
    /\ pos' = pos + 1
    /\ UNCHANGED <<content, out, status>>
    /\ UNCHANGED notPlainVars

YieldDirectReference ==
    /\ AtLine
    /\ ParseLine(lines[pos]).kind = "yield"
    /\ ParseLine(lines[pos]).via = "direct"
    /\ out' = Append(out, ParseLine(lines[pos]).rec)
    /\ pos' = pos + 1
    /\ UNCHANGED <<content, status>>
    /\ UNCHANGED notPlainVars

RaiseIndexError ==
    /\ AtLine
    /\ ParseLine(lines[pos]).kind = "raise"
    /\ status' = "raised"
    /\ UNCHANGED <<content, pos, out>>
    /\ UNCHANGED notPlainVars

YieldMatched ==
    /\ AtLine
    /\ ParseLine(lines[pos]).kind = "yield"
    /\ ParseLine(lines[pos]).via = "regex"
    /\ out' = Append(out, ParseLine(lines[pos]).rec)
    /\ pos' = pos + 1
    /\ UNCHANGED <<content, status>>
    /\ UNCHANGED notPlainVars

YieldRawLine ==
    /\ AtLine
    /\ ParseLine(lines[pos]).kind = "yield"
    /\ ParseLine(lines[pos]).via = "raw"
    /\ out' = Append(out, ParseLine(lines[pos]).rec)
    /\ pos' = pos + 1
    /\ UNCHANGED <<content, status>>
    /\ UNCHANGED notPlainVars

ReturnPlain ==
    /\ status = "running"
    /\ pos > Len(lines)
    /\ status' = "returned"
    /\ UNCHANGED <<content, pos, out>>
    /\ UNCHANGED notPlainVars

NextPlain ==
    \/ SkipLine
    \/ YieldDirectReference
    \/ RaiseIndexError
    \/ YieldMatched
    \/ YieldRawLine
    \/ ReturnPlain

SpecPlain == InitPlain /\ [][NextPlain]_vars

(***************************************************************************)
(* Claims about the plain-list parser, checked under SpecPlain.            *)
(***************************************************************************)
\* C1: for every sequence of input lines the plain-list parser runs to
\* completion and never raises; a malformed line never aborts the parse.
C1_NeverRaises == status # "raised"

\* C3: every record a parser emits has a package_name that is non-empty and
\* not made only of whitespace.
C3_PackageNameNotBlank == \A i \in 1..Len(out) : Strip(out[i][1]) # <<>>

\* A declaration line as C4 describes it: its trimmed form is non-blank, does
\* not start with "#" and does not start with an option/directive prefix.
IsDeclarationLine(raw_line) ==
    /\ Strip(raw_line) # <<>>
    /\ Head(Strip(raw_line)) # "#"
    /\ \A p \in OptionPrefixesA \cup OptionPrefixesB : ~StartsWith(Strip(raw_line), p)

DeclarationCount(ls) == Cardinality({i \in 1..Len(ls) : IsDeclarationLine(ls[i])})

\* C4: when the parse has ended, exactly one record has been emitted for each
\* declaration line of the input and none for any other line.
C4_OneRecordPerDeclaration ==
    status # "running" => Len(out) = DeclarationCount(lines)

\* A record written back as a requirement line: name, name @ url, or
\* name==version.
ReconstructLine(rec) ==
    IF rec[2] = <<>> THEN rec[1]
    ELSE IF StartsWith(rec[2], <<"@", " ">>) THEN rec[1] \o <<" ">> \o rec[2]
    ELSE rec[1] \o <<"=", "=">> \o rec[2]

ReconstructLines(records) == [i \in 1..Len(records) |-> ReconstructLine(records[i])]

RecordSet(records) == {records[i] : i \in 1..Len(records)}

\* C10: writing the records of a completed parse back as requirement lines
\* and parsing those lines again yields the same record set.
C10_ReparseIdempotent ==
    status = "returned" =>
        LET again == parse_python_requirements(ReconstructLines(out))
        IN  ~again.raised /\ RecordSet(again.records) = RecordSet(out)

(***************************************************************************)
(* SpecReq: the plain-list parser applied to one declaration line built    *)
(* as name, optional [extras], optional operator and version.              *)
(***************************************************************************)
MaxNameLen == 2
MaxVersionLen == 2

ReqNameAlphabet == {"a", "-", "r", "."}
ReqVersionAlphabet == {"1", "=", "]", "#", "@"}

\* Names long enough to begin with one of the longer option prefixes.
LongNames ==
    { <<"-", "-", "h", "a", "s", "h">>,
      <<"-", "-", "h", "a", "s">>,
      <<"r", "e", "q", "u", "e", "s", "t", "s">> }

ReqNames == (Texts(ReqNameAlphabet, MaxNameLen) \ {<<>>}) \cup LongNames
ReqVersions == Texts(ReqVersionAlphabet, MaxVersionLen) \ {<<>>}
ReqExtras == {<<>>, <<"[", "x", "]">>}

\* reqOp = 0: the line carries no operator and no version.
OperatorText(k) == IF k = 0 THEN <<>> ELSE ReqOperators[k]

DeclarationLine == reqName \o reqExtras \o OperatorText(reqOp) \o reqVersion

InitReq ==
    /\ reqName \in ReqNames
    /\ reqExtras \in ReqExtras
    /\ reqOp \in 0..Len(ReqOperators)
    /\ reqVersion \in IF reqOp = 0 THEN {<<>>} ELSE ReqVersions
    /\ reqPc = "pending"
    /\ reqResult = <<>>
    /\ IdlePlain /\ IdleLock /\ IdleMain /\ IdleManifest /\ IdleScan /\ IdleNames /\ IdleYarn /\ IdleTrail /\ IdleDirect /\ IdleClone

ParseDeclaration ==
    /\ reqPc = "pending"
    /\ reqResult' = parse_python_requirements(<<DeclarationLine>>)
    /\ reqPc' = "parsed"
    /\ UNCHANGED <<reqName, reqExtras, reqOp, reqVersion>>
    /\ UNCHANGED notReqVars

NextReq == ParseDeclaration

SpecReq == InitReq /\ [][NextReq]_vars

ReqParsed == reqPc = "parsed"

\* C8: a line name[extras] op version yields exactly (name, version), without
\* the extras bracket or any operator character; a line with no operator
\* yields an empty version_spec.
C8_NameAndVersionOnly ==
    ReqParsed =>
        /\ ~reqResult.raised
        /\ reqResult.records = <<<<reqName, reqVersion>>>>

IsExactPin == reqOp = 1 /\ reqExtras = <<>>

\* C9 as stated: every line name==version yields exactly one record (n, v)
\* with n + "==" + v equal to the line.
C9_ExactPinRoundTripAnyName ==
    (ReqParsed /\ IsExactPin) =>
        /\ ~reqResult.raised
        /\ Len(reqResult.records) = 1
        /\ reqResult.records[1][1] \o <<"=", "=">> \o reqResult.records[1][2]
               = DeclarationLine

\* C9: every line name==version whose name does not begin with an option
\* prefix (-r, --requirement, --find-links, --extra-index-url, --hash,
\* --only-binary, --prefer-binary) yields exactly one record (n, v) with
\* n + "==" + v equal to the line.
C9_ExactPinRoundTrip ==
    (ReqParsed /\ IsExactPin
       /\ \A p \in OptionPrefixesA \cup OptionPrefixesB : ~StartsWith(reqName, p)) =>
        /\ ~reqResult.raised
        /\ Len(reqResult.records) = 1
        /\ reqResult.records[1][1] \o <<"=", "=">> \o reqResult.records[1][2]
               = DeclarationLine

C9_Witness ==
    /\ ReqParsed /\ IsExactPin
    /\ reqName = <<"a", ".", "r">> \/ reqName = <<"a", ".">>
    /\ reqVersion = <<"1", "#">>
    /\ reqResult.records = <<<<reqName, reqVersion>>>>

(***************************************************************************)
(* SpecLock: the nested-tree parser applied to a decoded document.         *)
(***************************************************************************)
MaxEntries == 3

LockNames == {<<"a">>, <<"b">>}
LockVersion == JStr(<<"1", ".", "0">>)

\* Entries that carry no nested entry: a string, an empty dict, a dict with
\* a version, with a numeric version, with "dependencies" that is no dict,
\* and with empty "dependencies".
LeafInfos ==
    { JStr(<<"^", "1">>),
      JDict(<<>>),
      JDict(<< <<KeyVersion, LockVersion>> >>),
      JDict(<< <<KeyVersion, JOther(<<"2">>)>> >>),
      JDict(<< <<KeyVersion, LockVersion>>, <<KeyDependencies, JOther(<<"[", "]">>)>> >>),
      JDict(<< <<KeyVersion, LockVersion>>, <<KeyDependencies, JDict(<<>>)>> >>) }

TopNames(m) == {m[i][1] : i \in 1..Len(m)}

\* The mappings (sequences of entries) that hold exactly n entries, nested
\* ones included; the keys of one mapping are distinct.
RECURSIVE MappingsOfSize(_)
InfosOfSize(k) ==
    IF k = 1 THEN LeafInfos
    ELSE UNION { { JDict(<< <<KeyVersion, LockVersion>>, <<KeyDependencies, JDict(m)>> >>),
                   JDict(<< <<KeyDependencies, JDict(m)>> >>) } :
                 m \in MappingsOfSize(k - 1) }

MappingsOfSize(n) ==
    IF n = 0 THEN {<<>>}
    ELSE UNION { UNION { { <<<<name, info>>>> \o rest :
                             info \in InfosOfSize(k),
                             rest \in {m \in MappingsOfSize(n - k) : name \notin TopNames(m)} } :
                         name \in LockNames } :
                 k \in 1..n }

\* data of parse_package_lock: a dict whose "dependencies" is absent, no
\* dict, or a mapping of entries.
LockDocuments ==
    { JDict(<<>>), JDict(<< <<KeyDependencies, JOther(<<"[", "]">>)>> >>) }
    \cup { JDict(<< <<KeyDependencies, JDict(m)>> >>) :
             m \in UNION {MappingsOfSize(n) : n \in 0..MaxEntries} }

HasDependencies(data) == IsDict(Get(data, KeyDependencies, JDict(<<>>)))

InitLock ==
    /\ lockDoc \in LockDocuments
    /\ lockPc = "loaded"
    /\ lockOut = <<>>
    /\ IdlePlain /\ IdleReq /\ IdleMain /\ IdleManifest /\ IdleScan /\ IdleNames /\ IdleYarn /\ IdleTrail /\ IdleDirect /\ IdleClone

\* deps = data.get("dependencies", {}) is a dict with entries: they are walked.
WalkLockDependencies ==
    /\ lockPc = "loaded"
    /\ HasDependencies(lockDoc)
    /\ lockOut' = PackageLockRows(lockDoc)
    /\ lockPc' = "parsed"
    /\ UNCHANGED lockDoc
    /\ UNCHANGED notLockVars

\* deps is no dict: nothing is emitted.
NoLockDependencies ==
    /\ lockPc = "loaded"
    /\ ~HasDependencies(lockDoc)
    /\ lockOut' = PackageLockRows(lockDoc)
    /\ lockPc' = "parsed"
    /\ UNCHANGED lockDoc
    /\ UNCHANGED notLockVars

NextLock ==
    \/ WalkLockDependencies
    \/ NoLockDependencies

SpecLock == InitLock /\ [][NextLock]_vars

\* The version or the empty text of an entry, as the claim words it.
EntryVersion(info) ==
    IF IsDict(info) /\ KeyVersion \in Keys(info)
    THEN Get(info, KeyVersion, JStr(<<>>)).s
    ELSE <<>>

EntryChildren(info) ==
    IF IsDict(info) /\ IsDict(Get(info, KeyDependencies, JOther(<<>>)))
    THEN Get(info, KeyDependencies, JOther(<<>>)).items
    ELSE <<>>

\* The pre-order flattening of a mapping: each entry, then its nested
\* entries, then its later siblings.
RECURSIVE PreOrder(_)
PreOrder(deps) ==
    IF deps = <<>> THEN <<>>
    ELSE <<<<Head(deps)[1], EntryVersion(Head(deps)[2])>>>>
           \o PreOrder(EntryChildren(Head(deps)[2]))
           \o PreOrder(Tail(deps))

\* C2: the nested-tree parser's output is the pre-order flattening of the
\* tree: each parent before all of its nested children, siblings in declared
\* order, every entry once.
C2_ParentBeforeChildren ==
    (lockPc = "parsed" /\ HasDependencies(lockDoc)) =>
        lockOut = PreOrder(Get(lockDoc, KeyDependencies, JDict(<<>>)).items)

(***************************************************************************)
(* SpecManifest: parse_package_json, one pass of its loop over the sections *)
(* per step, on a decoded manifest document.                               *)
(***************************************************************************)
MaxGroupEntries == 1

PackageNames == {<<"a">>, <<"b">>}

\* The values an entry of a group can have: a range string, a number, a
\* nested object.
EntryValues ==
    { JStr(<<"^", "1">>),
      JOther(<<"2">>),
      JDict(<< <<<<"c">>, JStr(<<"3">>)>> >>) }

\* The mappings of at most n entries with distinct keys, in declared order.
RECURSIVE GroupMappings(_)
GroupMappings(n) ==
    IF n = 0 THEN {<<>>}
    ELSE LET shorter == GroupMappings(n - 1)
         IN  shorter \cup
             { Append(t[1], <<t[2], t[3]>>) :
                 t \in {u \in shorter \X PackageNames \X EntryValues :
                          Len(u[1]) = n - 1 /\ u[2] \notin TopNames(u[1])} }

\* What a document can hold under a section key: an array of names, a
\* string, or a mapping.
GroupValues ==
    { JOther(<<"[", "]">>), JStr(<<"x">>) }
    \cup { JDict(m) : m \in GroupMappings(MaxGroupEntries) }

SectionKeys == {ManifestSections[k] : k \in 1..Len(ManifestSections)}

\* A key of the document that is no section.
KeyName == <<"n", "a", "m", "e">>

\* Documents that declare no, one or two sections, in either order, and the
\* documents that declare all five, in the order of the list and reversed.
ManifestDocuments ==
    { JDict(<< <<KeyName, JStr(<<"p">>)>> >>) }
    \cup { JDict(<< <<k1, g1>> >>) : k1 \in SectionKeys, g1 \in GroupValues }
    \cup { JDict(<< <<ks[1], g1>>, <<ks[2], g2>> >>) :
             ks \in {x \in SectionKeys \X SectionKeys : x[1] # x[2]},
             g1 \in GroupValues, g2 \in GroupValues }
    \cup { JDict([k \in 1..Len(ManifestSections) |->
                    <<ManifestSections[k], JDict(<< <<name, JStr(<<"1">>)>> >>)>>]) :
             name \in PackageNames }
    \cup { JDict([k \in 1..Len(ManifestSections) |->
                    <<ManifestSections[Len(ManifestSections) + 1 - k],
                      JDict(<< <<name, JStr(<<"1">>)>> >>)>>]) :
             name \in PackageNames }

InitManifest ==
    /\ manData \in ManifestDocuments
    /\ manAt = 1
    /\ manOut = <<>>
    /\ manPc = "sections"
    /\ IdlePlain /\ IdleReq /\ IdleLock /\ IdleMain /\ IdleScan /\ IdleNames /\ IdleYarn /\ IdleTrail /\ IdleDirect /\ IdleClone

InSectionLoop == manPc = "sections" /\ manAt <= Len(ManifestSections)

\* deps = data.get(section, {}) is a dict: its string entries are yielded.
YieldSection ==
    /\ InSectionLoop
    /\ IsDict(Get(manData, ManifestSections[manAt], JDict(<<>>)))
    /\ manOut' = manOut \o SectionRows(manData, ManifestSections[manAt])
    /\ manAt' = manAt + 1
    /\ UNCHANGED <<manData, manPc>>
    /\ UNCHANGED notManifestVars

\* deps is no dict: the section yields nothing.
PassSection ==
    /\ InSectionLoop
    /\ ~IsDict(Get(manData, ManifestSections[manAt], JDict(<<>>)))
    /\ manOut' = manOut \o SectionRows(manData, ManifestSections[manAt])
    /\ manAt' = manAt + 1
    /\ UNCHANGED <<manData, manPc>>
    /\ UNCHANGED notManifestVars

ReturnManifest ==
    /\ manPc = "sections"
    /\ manAt > Len(ManifestSections)
    /\ manPc' = "returned"
    /\ UNCHANGED <<manData, manAt, manOut>>
    /\ UNCHANGED notManifestVars

NextManifest ==
    \/ YieldSection
    \/ PassSection
    \/ ReturnManifest

SpecManifest == InitManifest /\ [][NextManifest]_vars

\* The records the claim expects of the group under one key: one per entry
\* whose value is a plain string, in declared order; none when the key is
\* absent or its value is no mapping.
GroupRecords(data, key) ==
    IF key \notin Keys(data) THEN <<>>
    ELSE LET group == Get(data, key, JDict(<<>>))
             strings == IF IsDict(group)
                        THEN SelectSeq(group.items, LAMBDA e : e[2].t = "str")
                        ELSE <<>>
         IN  [i \in 1..Len(strings) |-> <<strings[i][1], strings[i][2].s>>]

JMalformed == [t |-> "malformed", s |-> <<>>, items |-> <<>>]

\* The texts a requirement file may hold, each with what json.load makes of it.
FileContents ==
    {
      \* (empty)
      [text |-> <<>>,
       json |-> JMalformed],
      \* a==1\n# c\n\n b \n
      [text |-> <<"a", "=", "=", "1", "\n", "#", " ", "c", "\n", "\n", " ", "b", " ", "\n">>,
       json |-> JMalformed],
      \* @ @x\na
      [text |-> <<"@", " ", "@", "x", "\n", "a">>,
       json |-> JMalformed],
      \* []
      [text |-> <<"[", "]">>,
       json |-> JOther(<<"[", "]">>)],
      \* {}
      [text |-> <<"{", "}">>,
       json |-> JDict(<<>>)],
      \* "x"
      [text |-> <<"\"", "x", "\"">>,
       json |-> JStr(<<"x">>)],
      \* {bad
      [text |-> <<"{", "b", "a", "d">>,
       json |-> JMalformed],
      \* {"dependencies":[]}
      [text |-> <<"{", "\"", "d", "e", "p", "e", "n", "d", "e", "n", "c", "i", "e", "s", "\"", ":", "[", "]", "}">>,
       json |-> JDict(<<<<<<"d", "e", "p", "e", "n", "d", "e", "n", "c", "i", "e", "s">>, JOther(<<"[", "]">>)>>>>)],
      \* {"dependencies":{"a":"1","b":{"version":"2"}},\n "devDependencies":{"c":"3"}}
      [text |-> <<"{", "\"", "d", "e", "p", "e", "n", "d", "e", "n", "c", "i", "e", "s", "\"", ":", "{", "\"", "a", "\"", ":", "\"", "1", "\"", ",", "\"", "b", "\"", ":", "{", "\"", "v", "e", "r", "s", "i", "o", "n", "\"", ":", "\"", "2", "\"", "}", "}", ",", "\n", " ", "\"", "d", "e", "v", "D", "e", "p", "e", "n", "d", "e", "n", "c", "i", "e", "s", "\"", ":", "{", "\"", "c", "\"", ":", "\"", "3", "\"", "}", "}">>,
       json |-> JDict(<<<<<<"d", "e", "p", "e", "n", "d", "e", "n", "c", "i", "e", "s">>, JDict(<<<<<<"a">>, JStr(<<"1">>)>>, <<<<"b">>, JDict(<<<<<<"v", "e", "r", "s", "i", "o", "n">>, JStr(<<"2">>)>>>>)>>>>)>>, <<<<"d", "e", "v", "D", "e", "p", "e", "n", "d", "e", "n", "c", "i", "e", "s">>, JDict(<<<<<<"c">>, JStr(<<"3">>)>>>>)>>>>)],
      \* "a@^1", b@2:\n  version "1.0"\n\n# c\nd:\n
      [text |-> <<"\"", "a", "@", "^", "1", "\"", ",", " ", "b", "@", "2", ":", "\n", " ", " ", "v", "e", "r", "s", "i", "o", "n", " ", "\"", "1", ".", "0", "\"", "\n", "\n", "#", " ", "c", "\n", "d", ":", "\n">>,
       json |-> JMalformed]
    }

FileNames ==
    { <<"r", "e", "q", "u", "i", "r", "e", "m", "e", "n", "t", "s", ".", "t", "x", "t">>,
      <<"s", "e", "t", "u", "p", ".", "p", "y">>,
      <<"p", "a", "c", "k", "a", "g", "e", ".", "j", "s", "o", "n">>,
      <<"P", "a", "c", "k", "a", "g", "e", ".", "J", "S", "O", "N">>,
      <<"p", "a", "c", "k", "a", "g", "e", "-", "l", "o", "c", "k", ".", "j", "s", "o", "n">>,
      <<"y", "a", "r", "n", ".", "l", "o", "c", "k">>,
      <<"p", "n", "p", "m", "-", "l", "o", "c", "k", ".", "y", "a", "m", "l">>,
      <<"G", "e", "m", "f", "i", "l", "e">>,
      <<"n", "o", "t", "e", "s", ".", "m", "d">> }

\* The requirement file on disk: missing, present but unreadable (read_text
\* and open raise OSError), or readable with one of the contents.
RequirementFiles ==
    { [name |-> n, state |-> st, text |-> <<>>, json |-> JMalformed] :
        n \in FileNames, st \in {"missing", "unreadable"} }
    \cup { [name |-> n, state |-> "readable", text |-> c.text, json |-> c.json] :
             n \in FileNames, c \in FileContents }

\* --ecosystem and --repo; the empty value stands for an option not given.
EcosystemOptions ==
    { <<>>, <<"p", "y", "t", "h", "o", "n">>, <<"n", "o", "d", "e", "j", "s">>,
      <<"r", "u", "b", "y">>, <<"P", "y", "t", "h", "o", "n">> }
RepoOptions == {<<>>, <<"m", "y", "-", "r", "e", "p", "o">>}

\* The name infer_repo_context finds when --repo is not given.
InferredRepoName == <<"r", "o", "o", "t">>

NoRow == [kind |-> "none", ecosystem |-> <<>>, repo |-> <<>>, filename |-> <<>>,
          package |-> <<>>, version |-> <<>>]
HeaderRow == [NoRow EXCEPT !.kind = "header"]
\* A row left in the output file by an earlier run.
StaleRow == [NoRow EXCEPT !.kind = "stale"]
DataRow(eco, repo, file, rec) ==
    [kind |-> "data", ecosystem |-> eco, repo |-> repo, filename |-> file,
     package |-> rec[1], version |-> rec[2]]

OutputFiles == { [exists |-> FALSE, rows |-> <<>>], [exists |-> TRUE, rows |-> <<StaleRow>>] }

Raised(exception) == [error |-> exception, rows |-> <<>>]
Returned(records) == [error |-> "none", rows |-> records]

\* parse_requirements(requirement_file, ecosystem): the rows returned or the
\* exception that leaves the function.  OSError and JSONDecodeError are
\* wrapped in RuntimeError; anything else propagates as it is.
ParseRequirements(file, eco) ==
    LET taken == Dispatch(eco, file.name)
        plain == parse_python_requirements(SplitLines(file.text))
    IN  IF file.state # "readable" THEN Raised("RuntimeError")
        ELSE IF taken = "plain"
        THEN IF plain.raised THEN Raised("IndexError") ELSE Returned(plain.records)
        ELSE IF taken \in {"manifest", "tree"}
        THEN IF file.json = JMalformed THEN Raised("RuntimeError")
             ELSE IF ~IsDict(file.json) THEN Raised("AttributeError")
             ELSE IF taken = "manifest" THEN Returned(PackageJsonRows(file.json))
             ELSE Returned(PackageLockRows(file.json))
        ELSE IF taken = "blocks" THEN Returned(YarnLockRows(file.text))
        ELSE Returned(FallbackRows(SplitLines(file.text)))

InitMain ==
    /\ requirement_file \in RequirementFiles
    /\ args \in [ecosystem : EcosystemOptions, repo : RepoOptions]
    /\ csvBefore \in OutputFiles
    /\ csvfile = csvBefore
    /\ pc = "start"
    /\ ecosystem = <<>>
    /\ repo_name = <<>>
    /\ branch = "none"
    /\ rows = <<>>
    /\ error = "none"
    /\ written = 0
    /\ IdlePlain /\ IdleReq /\ IdleLock /\ IdleManifest /\ IdleScan /\ IdleNames /\ IdleYarn /\ IdleTrail /\ IdleDirect /\ IdleClone

\* if not requirement_file.exists(): raise SystemExit(...)
FileNotFound ==
    /\ pc = "start"
    /\ requirement_file.state = "missing"
    /\ pc' = "failed"
    /\ error' = "SystemExit"
    /\ UNCHANGED <<requirement_file, args, csvBefore, csvfile, ecosystem, repo_name, branch, rows, written>>
    /\ UNCHANGED notMainVars

\* infer_repo_context, args.ecosystem or infer_ecosystem(...), relative_filename
ResolveContext ==
    /\ pc = "start"
    /\ requirement_file.state # "missing"
    /\ repo_name' = IF args.repo # <<>> THEN args.repo ELSE InferredRepoName
    /\ ecosystem' = IF args.ecosystem # <<>> THEN args.ecosystem
                    ELSE infer_ecosystem(requirement_file.name)
    /\ pc' = "parse"
    /\ UNCHANGED <<requirement_file, args, csvBefore, csvfile, branch, rows, error, written>>
    /\ UNCHANGED notMainVars

\* A main that goes on to write the output whatever the parse ended with.
StoreResultIgnoringError(result) ==
    /\ rows' = result.rows
    /\ error' = result.error
    /\ pc' = "open"
    /\ UNCHANGED <<requirement_file, args, csvBefore, csvfile, ecosystem, repo_name, written>>
    /\ UNCHANGED notMainVars

\* rows = parse_requirements(requirement_file, ecosystem): main goes on with
\* the rows, or ends with the exception.
StoreResult(result) ==
    /\ rows' = result.rows
    /\ error' = result.error
    /\ pc' = IF result.error = "none" THEN "open" ELSE "failed"
    /\ UNCHANGED <<requirement_file, args, csvBefore, csvfile, ecosystem, repo_name, written>>
    /\ UNCHANGED notMainVars

\* if ecosystem == "python": parse_python_requirements
ParsePlainList ==
    /\ pc = "parse"
    /\ Dispatch(ecosystem, requirement_file.name) = "plain"
    /\ branch' = "plain"
    /\ StoreResult(ParseRequirements(requirement_file, ecosystem))

\* nodejs, package.json: parse_package_json
ParseManifest ==
    /\ pc = "parse"
    /\ Dispatch(ecosystem, requirement_file.name) = "manifest"
    /\ branch' = "manifest"
    /\ StoreResult(ParseRequirements(requirement_file, ecosystem))

\* nodejs, package-lock.json: parse_package_lock
ParseLockTree ==
    /\ pc = "parse"
    /\ Dispatch(ecosystem, requirement_file.name) = "tree"
    /\ branch' = "tree"
    /\ StoreResult(ParseRequirements(requirement_file, ecosystem))

\* nodejs, yarn.lock: parse_yarn_lock
ParseBlockRecords ==
    /\ pc = "parse"
    /\ Dispatch(ecosystem, requirement_file.name) = "blocks"
    /\ branch' = "blocks"
    /\ StoreResult(ParseRequirements(requirement_file, ecosystem))

\* Fallback: simple line-per-package parsing
ParseFallback ==
    /\ pc = "parse"
    /\ Dispatch(ecosystem, requirement_file.name) = "fallback"
    /\ branch' = "fallback"
    /\ StoreResult(ParseRequirements(requirement_file, ecosystem))

\* output_path.open("w", ...): the file is created or truncated.
OpenOutput ==
    /\ pc = "open"
    /\ csvfile' = [exists |-> TRUE, rows |-> <<>>]
    /\ pc' = "header"
    /\ UNCHANGED <<requirement_file, args, csvBefore, ecosystem, repo_name, branch, rows, error, written>>
    /\ UNCHANGED notMainVars

\* writer.writerow(["ecosystem", "repo", "filename", "package", "version"])
WriteHeader ==
    /\ pc = "header"
    /\ csvfile' = [csvfile EXCEPT !.rows = Append(@, HeaderRow)]
    /\ pc' = "rows"
    /\ UNCHANGED <<requirement_file, args, csvBefore, ecosystem, repo_name, branch, rows, error, written>>
    /\ UNCHANGED notMainVars

\* for package, version in rows: writer.writerow([...])
WriteRow ==
    /\ pc = "rows"
    /\ written < Len(rows)
    /\ csvfile' = [csvfile EXCEPT !.rows =
                     Append(@, DataRow(ecosystem, repo_name, requirement_file.name,
                                       rows[written + 1]))]
    /\ written' = written + 1
    /\ UNCHANGED <<requirement_file, args, csvBefore, ecosystem, repo_name, branch, rows, error, pc>>
    /\ UNCHANGED notMainVars

\* The file is closed, the count is printed, main returns 0.
ReturnMain ==
    /\ pc = "rows"
    /\ written = Len(rows)
    /\ pc' = "done"
    /\ UNCHANGED <<requirement_file, args, csvBefore, csvfile, ecosystem, repo_name, branch, rows, error, written>>
    /\ UNCHANGED notMainVars

NextMain ==
    \/ FileNotFound
    \/ ResolveContext
    \/ ParsePlainList
    \/ ParseManifest
    \/ ParseLockTree
    \/ ParseBlockRecords
    \/ ParseFallback
    \/ OpenOutput
    \/ WriteHeader
    \/ WriteRow
    \/ ReturnMain

SpecMain == InitMain /\ [][NextMain]_vars

(***************************************************************************)
(* Claims about parse_requirements and main, checked under SpecMain.       *)
(***************************************************************************)
Parsed == pc \in {"failed", "open", "header", "rows", "done"} /\ branch # "none"

\* C5: when the manifest-object or nested-tree parser is given malformed
\* JSON or JSON whose top level is no mapping, parse_requirements fails with
\* the wrapped RuntimeError that names the file, and returns no rows.
C5_StructuralFailureIsWrapped ==
    (Parsed /\ branch \in {"manifest", "tree"}
       /\ requirement_file.state = "readable" /\ ~IsDict(requirement_file.json)) =>
        error = "RuntimeError" /\ rows = <<>>

\* C6: when processing the file ends in a fatal error, the output CSV is
\* left as it was (not created, not truncated, nothing written); the output
\* changes only after the parse has returned rows.
C6_FatalErrorWritesNothing ==
    /\ error # "none" => csvfile = csvBefore
    /\ csvfile # csvBefore => (error = "none" /\ pc \in {"header", "rows", "done"})

C6_Witness ==
    /\ pc = "failed"
    /\ error = "RuntimeError"
    /\ branch = "manifest"
    /\ requirement_file.state = "readable"
    /\ csvBefore.exists
    /\ csvfile.rows = <<StaleRow>>

\* The generic fallback as C7 words it: one record per non-blank,
\* non-comment line, the trimmed line as package, an empty version.
IsPackageLine(l) == Strip(l) # <<>> /\ Head(Strip(l)) # "#"
GenericRecords(ls) ==
    [i \in 1..Len(SelectSeq(ls, IsPackageLine)) |->
        <<Strip(SelectSeq(ls, IsPackageLine)[i]), <<>>>>]

\* The parser dedicated to (ecosystem, file name), "fallback" when none is.
DedicatedParser(eco, name) ==
    CASE eco = <<"p", "y", "t", "h", "o", "n">> -> "plain"
      [] eco = <<"n", "o", "d", "e", "j", "s">> /\ Lower(name) = PackageJsonName -> "manifest"
      [] eco = <<"n", "o", "d", "e", "j", "s">> /\ Lower(name) = PackageLockName -> "tree"
      [] eco = <<"n", "o", "d", "e", "j", "s">> /\ Lower(name) = YarnLockName -> "blocks"
      [] OTHER -> "fallback"

C16_EcosystemColumnLowercase ==
    \A i \in 1..Len(csvfile.rows) :
        csvfile.rows[i].kind = "data" =>
            \A k \in 1..Len(csvfile.rows[i].ecosystem) :
                csvfile.rows[i].ecosystem[k] \notin UpperLetters

(***************************************************************************)
(* SpecScan: find_requirement_files over a directory tree, and main's      *)
(* printing of the result.  A tree is the set of its files, each a path    *)
(* relative to the root.                                                   *)
(***************************************************************************)
MaxTreeFiles == 3

CandidatePaths ==
    { << <<"r", "e", "q", "u", "i", "r", "e", "m", "e", "n", "t", "s", ".", "t", "x", "t">> >>,
      << <<".", "g", "i", "t">>, <<"c", "o", "n", "f", "i", "g">> >>,
      << <<"n", "o", "d", "e", "_", "m", "o", "d", "u", "l", "e", "s">>, <<"p", "k", "g">>,
         <<"p", "a", "c", "k", "a", "g", "e", ".", "j", "s", "o", "n">> >>,
      << <<"a">>, <<"r", "e", "q", "u", "i", "r", "e", "m", "e", "n", "t", "s", ".", "t", "x", "t">> >>,
      << <<"a", "-", "b">>, <<"r", "e", "q", "u", "i", "r", "e", "m", "e", "n", "t", "s", ".", "t", "x", "t">> >>,
      << <<"a">>, <<".", "g", "i", "t">>, <<"g", "o", ".", "m", "o", "d">> >>,
      << <<"a">>, <<"A", "p", "p", ".", "c", "s", "p", "r", "o", "j">> >>,
      << <<"n", "o", "t", "e", "s", ".", "m", "d">> >>,
      << <<"N", "o", "d", "e", "_", "M", "o", "d", "u", "l", "e", "s">>, <<"y", "a", "r", "n", ".", "l", "o", "c", "k">> >> }

Trees == {S \in SUBSET CandidatePaths : Cardinality(S) <= MaxTreeFiles}

OutputChoices == {"text", "json"}

\* The listing os.walk gives for the directory d: its files and its
\* directories.
FilesIn(d) ==
    {p[Len(d) + 1] : p \in {q \in tree : Len(q) = Len(d) + 1 /\ SubSeq(q, 1, Len(d)) = d}}

DirsIn(d) ==
    {p[Len(d) + 1] : p \in {q \in tree : Len(q) > Len(d) + 1 /\ SubSeq(q, 1, Len(d)) = d}}

\* A walk that descends into every directory.
KeptDirsUnpruned(d) == DirsIn(d)

\* dirs[:] = [d for d in dirs if d not in SKIP_DIRECTORIES]
KeptDirs(d) == {n \in DirsIn(d) : n \notin SKIP_DIRECTORIES}

\* The orders in which a listing can name the members of S.
Orderings(S) == {s \in [1..Cardinality(S) -> S] : Range(s) = S}

\* "\n".join of the lines, each followed by the line break print adds.
RECURSIVE PrintedLines(_)
PrintedLines(ls) ==
    IF ls = <<>> THEN <<>> ELSE Head(ls) \o <<"\n">> \o PrintedLines(Tail(ls))

NoneFoundMessage ==
    <<"N", "o", " ", "r", "e", "q", "u", "i", "r", "e", "m", "e", "n", "t", " ",
      "f", "i", "l", "e", "s", " ", "f", "o", "u", "n", "d", ".">>

\* What the text mode prints for a result.
TextRendering(paths) ==
    IF paths = <<>> THEN PrintedLines(<<NoneFoundMessage>>)
    ELSE PrintedLines([i \in 1..Len(paths) |-> PathStr(paths[i])])

\* json.dumps of one string: quoted, with the quote, the backslash and the
\* line break escaped.
RECURSIVE JsonEscape(_)
JsonEscape(s) ==
    IF s = <<>> THEN <<>>
    ELSE (IF Head(s) = "\"" THEN <<"\\", "\"">>
          ELSE IF Head(s) = "\\" THEN <<"\\", "\\">>
          ELSE IF Head(s) = "\n" THEN <<"\\", "n">>
          ELSE <<Head(s)>>) \o JsonEscape(Tail(s))

JsonString(s) == <<"\"">> \o JsonEscape(s) \o <<"\"">>

RECURSIVE JsonItems(_)
JsonItems(strings) ==
    IF Len(strings) = 1 THEN <<" ", " ">> \o JsonString(strings[1]) \o <<"\n">>
    ELSE <<" ", " ">> \o JsonString(Head(strings)) \o <<",", "\n">> \o JsonItems(Tail(strings))

\* json.dumps(strings, indent=2)
JsonDumps(strings) ==
    IF strings = <<>> THEN <<"[", "]">>
    ELSE <<"[", "\n">> \o JsonItems(strings) \o <<"]">>

\* What the json mode prints for a result.
JsonRendering(paths) ==
    PrintedLines(<<JsonDumps([i \in 1..Len(paths) |-> PathStr(paths[i])])>>)

InitScan ==
    /\ tree \in Trees
    /\ output \in OutputChoices
    /\ walkStack = << <<>> >>
    /\ matches = <<>>
    /\ scanPc = "walk"
    /\ stdout = <<>>
    /\ IdlePlain /\ IdleReq /\ IdleLock /\ IdleMain /\ IdleManifest /\ IdleNames /\ IdleYarn /\ IdleTrail /\ IdleDirect /\ IdleClone

\* One pass of the loop over os.walk(root): the directories to skip are
\* taken out of dirs, the matching files are appended, and the walk goes on
\* into the directories that are left, before any directory met earlier.
WalkDirectory ==
    /\ scanPc = "walk"
    /\ walkStack # <<>>
    /\ LET d == Head(walkStack)
       IN  \E fs \in Orderings({f \in FilesIn(d) : is_requirement_file(f)}),
              ds \in Orderings(KeptDirs(d)) :
               /\ matches' = matches \o [i \in 1..Len(fs) |-> Append(d, fs[i])]
               /\ walkStack' = [i \in 1..Len(ds) |-> Append(d, ds[i])] \o Tail(walkStack)
    /\ UNCHANGED <<tree, output, scanPc, stdout>>
    /\ UNCHANGED notScanVars

\* return sorted(matches)
SortMatches ==
    /\ scanPc = "walk"
    /\ walkStack = <<>>
    /\ matches' = SortedPaths(Range(matches))
    /\ scanPc' = "print"
    /\ UNCHANGED <<tree, output, walkStack, stdout>>
    /\ UNCHANGED notScanVars

PrintJson ==
    /\ scanPc = "print"
    /\ output = "json"
    /\ stdout' = stdout \o JsonRendering(matches)
    /\ scanPc' = "printed"
    /\ UNCHANGED <<tree, output, walkStack, matches>>
    /\ UNCHANGED notScanVars

PrintMatches ==
    /\ scanPc = "print"
    /\ output # "json"
    /\ matches # <<>>
    /\ stdout' = stdout \o TextRendering(matches)
    /\ scanPc' = "printed"
    /\ UNCHANGED <<tree, output, walkStack, matches>>
    /\ UNCHANGED notScanVars

PrintNoneFound ==
    /\ scanPc = "print"
    /\ output # "json"
    /\ matches = <<>>
    /\ stdout' = stdout \o TextRendering(matches)
    /\ scanPc' = "printed"
    /\ UNCHANGED <<tree, output, walkStack, matches>>
    /\ UNCHANGED notScanVars

ReturnScan ==
    /\ scanPc = "printed"
    /\ scanPc' = "done"
    /\ UNCHANGED <<tree, output, walkStack, matches, stdout>>
    /\ UNCHANGED notScanVars

NextScan ==
    \/ WalkDirectory
    \/ SortMatches
    \/ PrintJson
    \/ PrintMatches
    \/ PrintNoneFound
    \/ ReturnScan

SpecScan == InitScan /\ [][NextScan]_vars

(***************************************************************************)
(* Claims about the directory scan, checked under SpecScan.                *)
(***************************************************************************)
Scanned == scanPc \in {"print", "printed", "done"}

\* C12: the scan returns its matches in lexicographic order of the relative
\* path string: for any two returned paths p before q, str(p) <= str(q)
\* character by character over the whole path, separator included.
C12_SortedByPathString ==
    Scanned =>
        \A i, j \in 1..Len(matches) :
            i < j => ~TextLess(PathStr(matches[j]), PathStr(matches[i]))

\* The files the claim expects: the name matches and no component of the
\* path is a pruned directory name.
ExpectedMatches ==
    {p \in tree : /\ is_requirement_file(p[Len(p)])
                  /\ \A i \in 1..Len(p) : p[i] \notin SKIP_DIRECTORIES}

\* C13: the scan returns exactly the files whose name matches the exact-name
\* table or a pattern and whose path has no component in the pruned set:
\* nothing below a pruned directory is returned, no other match is left out.
C13_ExactlyUnprunedMatches ==
    Scanned =>
        /\ Range(matches) = ExpectedMatches
        /\ Len(matches) = Cardinality(ExpectedMatches)

\* The tree {requirements.txt, .git/config, node_modules/pkg/package.json}
\* gives only requirements.txt.
C13_Witness ==
    /\ scanPc = "done"
    /\ tree = { << <<"r", "e", "q", "u", "i", "r", "e", "m", "e", "n", "t", "s", ".", "t", "x", "t">> >>,
                << <<".", "g", "i", "t">>, <<"c", "o", "n", "f", "i", "g">> >>,
                << <<"n", "o", "d", "e", "_", "m", "o", "d", "u", "l", "e", "s">>, <<"p", "k", "g">>,
                   <<"p", "a", "c", "k", "a", "g", "e", ".", "j", "s", "o", "n">> >> }
    /\ matches = << << <<"r", "e", "q", "u", "i", "r", "e", "m", "e", "n", "t", "s", ".", "t", "x", "t">> >> >>

\* The strings of a printed JSON array, as a reader decodes them.
RECURSIVE JsonScan(_, _, _)
JsonScan(text, inString, current) ==
    IF text = <<>> THEN <<>>
    ELSE IF ~inString
    THEN JsonScan(Tail(text), Head(text) = "\"", <<>>)
    ELSE IF Head(text) = "\\"
    THEN JsonScan(Tail(Tail(text)), TRUE,
                  Append(current, IF text[2] = "n" THEN "\n" ELSE text[2]))
    ELSE IF Head(text) = "\""
    THEN <<current>> \o JsonScan(Tail(text), FALSE, <<>>)
    ELSE JsonScan(Tail(text), TRUE, Append(current, Head(text)))

JsonArrayStrings(text) == Range(JsonScan(text, FALSE, <<>>))

TextLines(text) == Range(SplitLines(text))

\* C17: the two renderings of a scan result carry the same paths: the set of
\* lines printed in text mode equals the set of strings in the JSON array
\* printed in json mode, for every result, the empty one included.
C17_RenderingsAgree ==
    scanPc = "done" =>
        /\ output = "text" =>
               TextLines(stdout) = JsonArrayStrings(JsonRendering(matches))
        /\ output = "json" =>
               JsonArrayStrings(stdout) = TextLines(TextRendering(matches))

(***************************************************************************)
(* SpecNames: the classifier and the locator's matcher applied to one file *)
(* name.                                                                   *)
(***************************************************************************)
MaxStemLen == 2

StemAlphabet == {"a", "."}

NameSuffixes ==
    { <<>>,
      <<".", "t", "x", "t">>,
      <<".", "T", "X", "T">>,
      <<".", "c", "s", "p", "r", "o", "j">>,
      <<".", "F", "s", "p", "r", "o", "j">>,
      <<".", "v", "b", "p", "r", "o", "j">>,
      <<".", "d", "e", "p", "s", ".", "j", "s", "o", "n">>,
      <<".", "l", "o", "c", "k">>,
      <<".", "j", "s", "o", "n">>,
      <<".", "m", "d">> }

RequirementsDash == <<"r", "e", "q", "u", "i", "r", "e", "m", "e", "n", "t", "s", "-">>

\* The names of the tables of both programs.
TableNames ==
    EXACT_FILENAMES \cup PYTHON_HINTS \cup NODE_HINTS \cup RUBY_NAMES \cup DOTNET_NAMES
    \cup JAVA_NAMES \cup RUST_NAMES \cup GO_NAMES \cup PHP_NAMES

UpperChar(c) ==
    IF c \in LowerLetters
    THEN UpperSeq[CHOOSE i \in 1..Len(LowerSeq) : LowerSeq[i] = c]
    ELSE c

\* The name with its first letter in upper case, as in Cargo.lock.
Capitalised(name) == <<UpperChar(Head(name))>> \o Tail(name)

\* File names: the table names as they are and capitalised, and short stems
\* with the suffixes the rules look at.
FileNameChoices ==
    TableNames
    \cup { Capitalised(n) : n \in TableNames }
    \cup { stem \o suffix : stem \in Texts(StemAlphabet, MaxStemLen), suffix \in NameSuffixes }
    \cup { RequirementsDash \o stem \o <<".", "t", "x", "t">> :
             stem \in Texts(StemAlphabet, MaxStemLen) }

InitNames ==
    /\ fileName \in FileNameChoices
    /\ nameTag = <<>>
    /\ nameAccepted = FALSE
    /\ namePc = "given"
    /\ IdlePlain /\ IdleReq /\ IdleLock /\ IdleMain /\ IdleManifest /\ IdleScan /\ IdleYarn /\ IdleTrail /\ IdleDirect /\ IdleClone

\* infer_ecosystem(requirement_file)
Classify ==
    /\ namePc = "given"
    /\ nameTag' = infer_ecosystem(fileName)
    /\ namePc' = "classified"
    /\ UNCHANGED <<fileName, nameAccepted>>
    /\ UNCHANGED notNamesVars

\* is_requirement_file(file_name)
Locate ==
    /\ namePc = "classified"
    /\ nameAccepted' = is_requirement_file(fileName)
    /\ namePc' = "located"
    /\ UNCHANGED <<fileName, nameTag>>
    /\ UNCHANGED notNamesVars

NextNames ==
    \/ Classify
    \/ Locate

SpecNames == InitNames /\ [][NextNames]_vars

\* C14: the locator and the classifier apply the same rules: the locator's
\* is_requirement_file accepts a file name exactly when the classifier
\* infer_ecosystem gives it an ecosystem other than "unknown".
C14_LocatorAgreesWithClassifier ==
    namePc = "located" =>
        (nameAccepted <=> nameTag # <<"u", "n", "k", "n", "o", "w", "n">>)

\* The ecosystems whose exact-name table holds the lower-cased name.
ExactEcosystems(lower_name) ==
    {e \in { [tag |-> <<"p", "y", "t", "h", "o", "n">>, names |-> PYTHON_HINTS],
             [tag |-> <<"n", "o", "d", "e", "j", "s">>, names |-> NODE_HINTS],
             [tag |-> <<"r", "u", "b", "y">>, names |-> RUBY_NAMES],
             [tag |-> <<"d", "o", "t", "n", "e", "t">>, names |-> DOTNET_NAMES],
             [tag |-> <<"j", "a", "v", "a">>, names |-> JAVA_NAMES],
             [tag |-> <<"r", "u", "s", "t">>, names |-> RUST_NAMES],
             [tag |-> <<"g", "o">>, names |-> GO_NAMES],
             [tag |-> <<"p", "h", "p">>, names |-> PHP_NAMES] } : lower_name \in e.names}

\* C15: the classifier is total and case-insensitive, and exact names come
\* before patterns: a name whose lower-cased form is in an ecosystem's
\* exact-name table gets that ecosystem whatever suffix it has; otherwise a
\* name ending in .txt is python and one ending in .csproj, .fsproj or
\* .vbproj is dotnet; otherwise the result is "unknown".
C15_ExactNameBeforePattern ==
    namePc \in {"classified", "located"} =>
        LET lower_name == Lower(fileName)
            exact == ExactEcosystems(lower_name)
        IN  IF exact # {}
            THEN exact = {e \in exact : e.tag = nameTag} /\ Cardinality(exact) = 1
            ELSE IF EndsWith(lower_name, <<".", "t", "x", "t">>)
            THEN nameTag = <<"p", "y", "t", "h", "o", "n">>
            ELSE IF \/ EndsWith(lower_name, <<".", "c", "s", "p", "r", "o", "j">>)
                    \/ EndsWith(lower_name, <<".", "f", "s", "p", "r", "o", "j">>)
                    \/ EndsWith(lower_name, <<".", "v", "b", "p", "r", "o", "j">>)
            THEN nameTag = <<"d", "o", "t", "n", "e", "t">>
            ELSE nameTag = <<"u", "n", "k", "n", "o", "w", "n">>

\* Cargo.lock gives rust.
C15_Witness ==
    /\ namePc = "classified"
    /\ fileName = <<"C", "a", "r", "g", "o", ".", "l", "o", "c", "k">>
    /\ nameTag = <<"r", "u", "s", "t">>

(***************************************************************************)
(* SpecYarn: parse_yarn_lock over a lockfile text, one block of the text   *)
(* per step.                                                               *)
(***************************************************************************)
MaxSpecLen == 3
MaxBodyLines == 1

SpecAlphabet == {"a", "@", "/"}

\* Specifiers of a header: every short text over the alphabet.
SpecChoices == Texts(SpecAlphabet, MaxSpecLen)

\* Specifiers used where a header names two: plain, scoped, quoted, empty,
\* and a scope alone.
PairSpecs ==
    { <<"a", "@", "a">>,
      <<"@", "a", "/", "a", "@", "a">>,
      <<"\"", "a", "@", "a", "\"">>,
      <<>>,
      <<"@", "a">> }

Separators == { <<",">>, <<",", " ">> }

\* First lines of a block: one specifier, one quoted specifier, two
\* specifiers, each closed by ":"; and lines that are no header.
HeaderChoices ==
    { spec \o <<":">> : spec \in SpecChoices }
    \cup { <<"\"">> \o spec \o <<"\"", ":">> : spec \in SpecChoices }
    \cup { s1 \o sep \o s2 \o <<":">> : s1 \in PairSpecs, s2 \in PairSpecs, sep \in Separators }
    \cup { spec \o <<":", " ">> : spec \in PairSpecs }
    \cup PairSpecs
    \cup { <<"#", " ", "c">> }

BodyLineChoices ==
    { <<" ", " ", "v", "e", "r", "s", "i", "o", "n", " ", "\"", "1", ".", "0", "\"">>,
      <<" ", " ", "v", "e", "r", "s", "i", "o", "n", " ", "2">>,
      <<" ", " ", "r", "e", "s", "o", "l", "v", "e", "d", " ", "\"", "u", "\"">>,
      <<" ", " ", "v", "e", "r", "s", "i", "o", "n", "s", " ", "\"", "3", "\"">> }

RECURSIVE BodyChoices(_)
BodyChoices(n) ==
    IF n = 0 THEN {<<>>}
    ELSE LET shorter == BodyChoices(n - 1)
         IN  shorter \cup {Append(b, l) : b \in {x \in shorter : Len(x) = n - 1},
                                          l \in BodyLineChoices}

RECURSIVE JoinLines(_)
JoinLines(ls) ==
    IF ls = <<>> THEN <<>>
    ELSE IF Len(ls) = 1 THEN ls[1]
    ELSE ls[1] \o <<"\n">> \o JoinLines(Tail(ls))

BlockChoices ==
    { JoinLines(<<header>> \o body) :
        header \in HeaderChoices, body \in BodyChoices(MaxBodyLines) }

\* Blocks put together into texts of several blocks.
JoinedBlocks ==
    { <<"a", "@", "a", ":", "\n", " ", " ", "v", "e", "r", "s", "i", "o", "n", " ", "\"", "1", ".", "0", "\"">>,
      <<"@", "a", "/", "a", "@", "a", ",", " ", "a", "@", "a", ":", "\n", " ", " ", "r", "e", "s", "o", "l", "v", "e", "d", " ", "\"", "u", "\"", "\n", " ", " ", "v", "e", "r", "s", "i", "o", "n", " ", "2">>,
      <<"#", " ", "c">>,
      <<"a", ":">>,
      <<"a", "@", "a", ",", " ", "@", "a", ":", "\n", " ", " ", "v", "e", "r", "s", "i", "o", "n", " ", "\"", "1", ".", "0", "\"", "\n", " ", " ", "v", "e", "r", "s", "i", "o", "n", " ", "2">> }

\* The texts: one block; two blocks with one or two empty lines between
\* them; a block after or before a line break.
YarnTexts ==
    BlockChoices
    \cup { b1 \o <<"\n", "\n">> \o b2 : b1 \in JoinedBlocks, b2 \in JoinedBlocks }
    \cup { b1 \o <<"\n", "\n", "\n">> \o b2 : b1 \in JoinedBlocks, b2 \in JoinedBlocks }
    \cup { <<"\n">> \o b : b \in JoinedBlocks }
    \cup { b \o <<"\n">> : b \in JoinedBlocks }

\* content.split("\n\n")
YarnBlocks == Split(yarnText, <<"\n", "\n">>)

InitYarn ==
    /\ yarnText \in YarnTexts
    /\ yarnAt = 1
    /\ yarnOut = <<>>
    /\ yarnPc = "blocks"
    /\ IdlePlain /\ IdleReq /\ IdleLock /\ IdleMain /\ IdleManifest /\ IdleScan /\ IdleNames /\ IdleTrail /\ IdleDirect /\ IdleClone

AtBlock == yarnPc = "blocks" /\ yarnAt <= Len(YarnBlocks)

\* if not lines: continue
SkipEmptyBlock ==
    /\ AtBlock
    /\ BlockLines(SplitLines(YarnBlocks[yarnAt])) = <<>>
    /\ yarnOut' = yarnOut \o BlockRows(YarnBlocks[yarnAt])
    /\ yarnAt' = yarnAt + 1
    /\ UNCHANGED <<yarnText, yarnPc>>
    /\ UNCHANGED notYarnVars

\* if not header_line.endswith(":"): continue
SkipHeaderless ==
    /\ AtBlock
    /\ BlockLines(SplitLines(YarnBlocks[yarnAt])) # <<>>
    /\ ~EndsWith(BlockLines(SplitLines(YarnBlocks[yarnAt]))[1], <<":">>)
    /\ yarnOut' = yarnOut \o BlockRows(YarnBlocks[yarnAt])
    /\ yarnAt' = yarnAt + 1
    /\ UNCHANGED <<yarnText, yarnPc>>
    /\ UNCHANGED notYarnVars

\* The block has a header: its version is looked up and a record is yielded
\* for every specifier that is not empty.
YieldBlock ==
    /\ AtBlock
    /\ BlockLines(SplitLines(YarnBlocks[yarnAt])) # <<>>
    /\ EndsWith(BlockLines(SplitLines(YarnBlocks[yarnAt]))[1], <<":">>)
    /\ yarnOut' = yarnOut \o BlockRows(YarnBlocks[yarnAt])
    /\ yarnAt' = yarnAt + 1
    /\ UNCHANGED <<yarnText, yarnPc>>
    /\ UNCHANGED notYarnVars

ReturnYarn ==
    /\ yarnPc = "blocks"
    /\ yarnAt > Len(YarnBlocks)
    /\ yarnPc' = "returned"
    /\ UNCHANGED <<yarnText, yarnAt, yarnOut>>
    /\ UNCHANGED notYarnVars

NextYarn ==
    \/ SkipEmptyBlock
    \/ SkipHeaderless
    \/ YieldBlock
    \/ ReturnYarn

SpecYarn == InitYarn /\ [][NextYarn]_vars

(***************************************************************************)
(* Claims about the block-record parser, checked under SpecYarn.           *)
(***************************************************************************)
\* The lines of a block that are not blank, without trailing whitespace.
NonBlankLines(block) ==
    LET kept == SelectSeq(SplitLines(block), LAMBDA l : Strip(l) # <<>>)
    IN  [i \in 1..Len(kept) |-> RStrip(kept[i])]

ValidHeader(block) ==
    /\ NonBlankLines(block) # <<>>
    /\ NonBlankLines(block)[1][Len(NonBlankLines(block)[1])] = ":"

\* The specifiers of a valid header: the comma-separated pieces of the line
\* before its ":", trimmed and unquoted, that are not empty.
HeaderSpecifiers(block) ==
    LET header == NonBlankLines(block)[1]
        pieces == Split(SubSeq(header, 1, Len(header) - 1), <<",">>)
        bare == [i \in 1..Len(pieces) |-> StripQuotes(Strip(pieces[i]))]
    IN  SelectSeq(bare, LAMBDA x : x # <<>>)

\* The specifiers of all valid headers of a text, in order, each with the
\* block it stands in.
TextSpecifiers(text) ==
    LET blocks == Split(text, <<"\n", "\n">>)
    IN  Flatten([k \in 1..Len(blocks) |->
                   IF ValidHeader(blocks[k])
                   THEN [i \in 1..Len(HeaderSpecifiers(blocks[k])) |->
                           [spec |-> HeaderSpecifiers(blocks[k])[i], block |-> blocks[k]]]
                   ELSE <<>>])

\* The name the claim gives a specifier: the whole specifier when no "@"
\* stands after its first character, else the text before the last "@".
NameByLastAt(spec) ==
    IF \A i \in 2..Len(spec) : spec[i] # "@" THEN spec
    ELSE LET last == CHOOSE i \in 2..Len(spec) :
                       spec[i] = "@" /\ \A j \in (i + 1)..Len(spec) : spec[j] # "@"
         IN  SubSeq(spec, 1, last - 1)

\* C18: the name of a record is found from the last "@" of its specifier:
\* without an "@", or with the last "@" first in the specifier, the whole
\* specifier is the name, else the name is the text before that "@"; so
\* @scope/pkg@^1.0 gives @scope/pkg and @scope/pkg gives itself.
C18_NameFromLastAt ==
    yarnPc = "returned" =>
        [i \in 1..Len(yarnOut) |-> yarnOut[i][1]]
            = [i \in 1..Len(TextSpecifiers(yarnText)) |->
                 NameByLastAt(TextSpecifiers(yarnText)[i].spec)]

C18_Witness ==
    /\ yarnPc = "returned"
    /\ Contains(yarnText, <<"@", "a", "/", "a", "@", "a">>)
    /\ \E i \in 1..Len(yarnOut) : yarnOut[i][1] = <<"@", "a", "/", "a">>
    /\ \E i \in 1..Len(yarnOut) : yarnOut[i][1] = <<"@", "a">>

\* The version the claim gives a block: the text after "version " on the
\* first body line whose trimmed form begins with it, unquoted; the empty
\* text when there is no such line.
VersionOfBlock(block) ==
    LET body == Tail(NonBlankLines(block))
        hits == {i \in 1..Len(body) : StartsWith(Strip(body[i]), <<"v", "e", "r", "s", "i", "o", "n", " ">>)}
    IN  IF hits = {} THEN <<>>
        ELSE StripQuotes(Strip(SubSeq(Strip(body[Min(hits)]), 9, Len(Strip(body[Min(hits)])))))

\* C19: a block with a valid header gives one record per specifier of the
\* header, in header order, all with the version of the block (that of the
\* first "version " line, unquoted, or the empty text); a block whose first
\* line does not end in ":" gives nothing.
C19_OneRecordPerSpecifier ==
    yarnPc = "returned" =>
        /\ Len(yarnOut) = Len(TextSpecifiers(yarnText))
        /\ \A i \in 1..Len(yarnOut) :
               yarnOut[i][2] = VersionOfBlock(TextSpecifiers(yarnText)[i].block)

\* Two specifiers share the version of the first of two version lines.
C19_Witness ==
    /\ yarnPc = "returned"
    /\ Len(yarnOut) = 2
    /\ yarnOut[1][2] = <<"1", ".", "0">>
    /\ yarnOut[2][2] = <<"1", ".", "0">>
    /\ Contains(yarnText, <<"v", "e", "r", "s", "i", "o", "n", " ", "2">>)

(***************************************************************************)
(* SpecTrail: parse_python_requirements on a declaration line alone and on *)
(* the same line followed by an inline comment or an environment marker.   *)
(***************************************************************************)
MaxBaseLen == 3

BaseAlphabet == {"r", "-", "=", " ", "@"}

LongerBaseLines ==
    { <<"r", "e", "q", "u", "e", "s", "t", "s", "=", "=", "2", ".", "3", "1", ".", "0">>,
      <<"r", "=", "=", "r", "-">>,
      <<"r", " ", "@", " ", "r">> }

\* Lines without "#" and ";" that the loop does not skip.
BaseLines ==
    {l \in Texts(BaseAlphabet, MaxBaseLen) \cup LongerBaseLines : ~IsSkipped(l)}

\* Whitespace and "#" with a comment, which may hold ";" and "#".
CommentTrailers ==
    { <<" ", " ", "#", " ", "p", "i", "n", "n", "e", "d">>,
      <<" ", "#">>,
      <<"\t", "#", " ", "a", ";", "b">>,
      <<" ", "#", " ", "a", " ", "#", "b">> }

\* ";" with a marker, which may hold " #" and ";".
MarkerTrailers ==
    { <<";", " ", "m">>,
      <<";">>,
      <<" ", ";", " ", "m", " ", "#", " ", "c">>,
      <<";", "m", ";", "n">> }

InitTrail ==
    /\ trailBase \in BaseLines
    /\ trailer \in CommentTrailers \cup MarkerTrailers
    /\ trailAlone = <<>>
    /\ trailWith = <<>>
    /\ trailPc = "given"
    /\ IdlePlain /\ IdleReq /\ IdleLock /\ IdleMain /\ IdleManifest /\ IdleScan /\ IdleNames /\ IdleYarn /\ IdleDirect /\ IdleClone

\* list(parse_python_requirements([L]))
ParseAlone ==
    /\ trailPc = "given"
    /\ trailAlone' = parse_python_requirements(<<trailBase>>)
    /\ trailPc' = "alone"
    /\ UNCHANGED <<trailBase, trailer, trailWith>>
    /\ UNCHANGED notTrailVars

\* list(parse_python_requirements([L + whitespace + "#" + comment]))
ParseWithComment ==
    /\ trailPc = "alone"
    /\ trailer \in CommentTrailers
    /\ trailWith' = parse_python_requirements(<<trailBase \o trailer>>)
    /\ trailPc' = "both"
    /\ UNCHANGED <<trailBase, trailer, trailAlone>>
    /\ UNCHANGED notTrailVars

\* list(parse_python_requirements([L + ";" + marker]))
ParseWithMarker ==
    /\ trailPc = "alone"
    /\ trailer \in MarkerTrailers
    /\ trailWith' = parse_python_requirements(<<trailBase \o trailer>>)
    /\ trailPc' = "both"
    /\ UNCHANGED <<trailBase, trailer, trailAlone>>
    /\ UNCHANGED notTrailVars

NextTrail ==
    \/ ParseAlone
    \/ ParseWithComment
    \/ ParseWithMarker

SpecTrail == InitTrail /\ [][NextTrail]_vars

\* C20: a trailing inline comment or environment marker does not change the
\* record: for a declaration line L without "#" and ";", L followed by
\* whitespace and "# comment", or by "; marker", yields exactly the same
\* single record as L alone.
C20_TrailerKeepsRecord ==
    trailPc = "both" =>
        /\ ~trailWith.raised
        /\ Len(trailWith.records) = 1
        /\ trailWith = trailAlone

(***************************************************************************)
(* SpecDirect: the plain-list parser applied to one direct-reference line, *)
(* name, optional [extras], " @", the url and an optional trailer.         *)
(***************************************************************************)
MaxUrlLen == 2

UrlAlphabet == {"u", "/", "@", "=", " "}

LongerUrls ==
    { <<"h", "t", "t", "p", "s", ":", "/", "/", "x">>,
      <<"=", "=", "1", ".", "0">> }

DirectUrls == (Texts(UrlAlphabet, MaxUrlLen) \ {<<>>}) \cup LongerUrls

DirectTrailers ==
    { <<>>,
      <<" ", " ", "#", " ", "c">>,
      <<" ", ";", " ", "m">> }

DirectLine == dirName \o dirExtras \o <<" ", "@">> \o dirUrl \o dirTail

InitDirect ==
    /\ dirName \in ReqNames
    /\ dirExtras \in ReqExtras
    /\ dirUrl \in DirectUrls
    /\ dirTail \in DirectTrailers
    /\ dirPc = "pending"
    /\ dirResult = <<>>
    /\ IdlePlain /\ IdleReq /\ IdleLock /\ IdleMain /\ IdleManifest /\ IdleScan /\ IdleNames /\ IdleYarn /\ IdleTrail /\ IdleClone

\* list(parse_python_requirements([line]))
ParseDirect ==
    /\ dirPc = "pending"
    /\ dirResult' = parse_python_requirements(<<DirectLine>>)
    /\ dirPc' = "parsed"
    /\ UNCHANGED <<dirName, dirExtras, dirUrl, dirTail>>
    /\ UNCHANGED notDirectVars

NextDirect == ParseDirect

SpecDirect == InitDirect /\ [][NextDirect]_vars

\* C21: every line that the loop does not skip and that contains " @" after
\* comment and marker stripping yields exactly one record: its package_name
\* is the name before the "@" without the extras bracket and without
\* whitespace, its version_spec is "@ " followed by the url after the "@".
C21_DirectReferenceRecord ==
    (dirPc = "parsed" /\ IsDirectReference(DirectLine)) =>
        /\ ~dirResult.raised
        /\ dirResult.records = << <<dirName, <<"@", " ">> \o Strip(dirUrl)>> >>

(***************************************************************************)
(* SpecClone: find_requirement_files.main from its arguments to its exit,  *)
(* with the directories it meets, creates and deletes.  A directory is     *)
(* named by a string; disk is the set of directories that exist.           *)
(***************************************************************************)
\* Directories the user may own, the second one left by an earlier run with
\* --keep-clone.
UserDirectories == {"proj", "req-scan-kept"}

\* Repository arguments that name no path on the disk.
RepositoryUrls == {"https://h/r.git", "https://h/missing.git"}

\* The names tempfile.mkdtemp(prefix="req-scan-") may choose.
TempNames == {"req-scan-1", "req-scan-2"}

\* What the repository holds: nothing, or a requirement file and a
\* dependency cache.
RepoTrees ==
    { {},
      { << <<"r", "e", "q", "u", "i", "r", "e", "m", "e", "n", "t", "s", ".", "t", "x", "t">> >>,
        << <<"n", "o", "d", "e", "_", "m", "o", "d", "u", "l", "e", "s">>, <<"p", "k", "g">>,
           <<"p", "a", "c", "k", "a", "g", "e", ".", "j", "s", "o", "n">> >> } }

\* repo_path: Path | None = None
None == "None"

ScanArguments ==
    [repo_url : UserDirectories \cup RepositoryUrls,
     output : OutputChoices,
     keep_clone : BOOLEAN]

\* find_requirement_files(root) run to its end on the tree t: the files
\* with a matching name below no pruned directory, sorted.
ScanOf(t) ==
    SortedPaths({p \in t : /\ is_requirement_file(p[Len(p)])
                           /\ \A i \in 1..(Len(p) - 1) : p[i] \notin SKIP_DIRECTORIES})

RetainedMessage == "Repository clone retained at: "

InitClone ==
    /\ scanArgs \in ScanArguments
    /\ repoTree \in RepoTrees
    /\ diskBefore \in SUBSET (UserDirectories \cup {"req-scan-1"})
    /\ disk = diskBefore
    /\ target = None
    /\ repo_path = None
    /\ cleanup = TRUE
    /\ clonePc = "start"
    /\ deleted = {}
    /\ console = [stdout |-> <<>>, stderr |-> <<>>]
    /\ IdlePlain /\ IdleReq /\ IdleLock /\ IdleMain /\ IdleManifest /\ IdleScan /\ IdleNames /\ IdleYarn /\ IdleTrail /\ IdleDirect

\* if Path(args.repo_url).exists(): repo_path = ...; cleanup = False
\* with the assignment to cleanup left out.
UseLocalPathKeepingCleanup ==
    /\ clonePc = "start"
    /\ scanArgs.repo_url \in disk
    /\ repo_path' = scanArgs.repo_url
    /\ clonePc' = "try"
    /\ UNCHANGED <<scanArgs, repoTree, diskBefore, disk, target, cleanup, deleted, console>>
    /\ UNCHANGED notCloneVars

\* if Path(args.repo_url).exists(): repo_path = ...; cleanup = False
UseLocalPath ==
    /\ clonePc = "start"
    /\ scanArgs.repo_url \in disk
    /\ repo_path' = scanArgs.repo_url
    /\ cleanup' = FALSE
    /\ clonePc' = "try"
    /\ UNCHANGED <<scanArgs, repoTree, diskBefore, disk, target, deleted, console>>
    /\ UNCHANGED notCloneVars

\* clone_repo: target = Path(tempfile.mkdtemp(prefix="req-scan-"))
MakeTempDir ==
    /\ clonePc = "start"
    /\ scanArgs.repo_url \notin disk
    /\ \E t \in TempNames \ disk :
           /\ target' = t
           /\ disk' = disk \cup {t}
    /\ clonePc' = "clone"
    /\ UNCHANGED <<scanArgs, repoTree, diskBefore, repo_path, cleanup, deleted, console>>
    /\ UNCHANGED notCloneVars

\* clone_repo: git clone exits with 0; return target
CloneSucceeds ==
    /\ clonePc = "clone"
    /\ scanArgs.repo_url \in RepositoryUrls
    /\ repo_path' = target
    /\ clonePc' = "try"
    /\ UNCHANGED <<scanArgs, repoTree, diskBefore, disk, target, cleanup, deleted, console>>
    /\ UNCHANGED notCloneVars

\* clone_repo: git clone exits with an error (it leaves the directory it
\* was given in place); RuntimeError leaves clone_repo and, raised before
\* main's try statement, leaves main.
CloneFails ==
    /\ clonePc = "clone"
    /\ clonePc' = "raised"
    /\ UNCHANGED <<scanArgs, repoTree, diskBefore, disk, target, repo_path, cleanup, deleted, console>>
    /\ UNCHANGED notCloneVars

\* matches = find_requirement_files(repo_path); print(json.dumps(...))
ScanAndPrintJson ==
    /\ clonePc = "try"
    /\ scanArgs.output = "json"
    /\ console' = [console EXCEPT !.stdout = @ \o JsonRendering(ScanOf(repoTree))]
    /\ clonePc' = "keep"
    /\ UNCHANGED <<scanArgs, repoTree, diskBefore, disk, target, repo_path, cleanup, deleted>>
    /\ UNCHANGED notCloneVars

\* matches = find_requirement_files(repo_path); print each match, or the
\* message for none
ScanAndPrintText ==
    /\ clonePc = "try"
    /\ scanArgs.output # "json"
    /\ console' = [console EXCEPT !.stdout = @ \o TextRendering(ScanOf(repoTree))]
    /\ clonePc' = "keep"
    /\ UNCHANGED <<scanArgs, repoTree, diskBefore, disk, target, repo_path, cleanup, deleted>>
    /\ UNCHANGED notCloneVars

\* An exception inside the try statement (print on a closed pipe, an
\* interrupt): control goes to the finally clause.
ScanRaises ==
    /\ clonePc = "try"
    /\ clonePc' = "finally-raising"
    /\ UNCHANGED <<scanArgs, repoTree, diskBefore, disk, target, repo_path, cleanup, deleted, console>>
    /\ UNCHANGED notCloneVars

\* if args.keep_clone and cleanup: cleanup = False; print(..., file=sys.stderr)
RetainClone ==
    /\ clonePc = "keep"
    /\ scanArgs.keep_clone /\ cleanup
    /\ cleanup' = FALSE
    /\ console' = [console EXCEPT !.stderr = Append(@, <<RetainedMessage, repo_path>>)]
    /\ clonePc' = "finally"
    /\ UNCHANGED <<scanArgs, repoTree, diskBefore, disk, target, repo_path, deleted>>
    /\ UNCHANGED notCloneVars

\* the same test failing; return 0 goes through the finally clause
SkipRetain ==
    /\ clonePc = "keep"
    /\ ~(scanArgs.keep_clone /\ cleanup)
    /\ clonePc' = "finally"
    /\ UNCHANGED <<scanArgs, repoTree, diskBefore, disk, target, repo_path, cleanup, deleted, console>>
    /\ UNCHANGED notCloneVars

AtFinally == clonePc \in {"finally", "finally-raising"}

AfterFinally == IF clonePc = "finally" THEN "returned" ELSE "raised"

\* finally: if cleanup and repo_path: shutil.rmtree(repo_path, ignore_errors=True)
RemoveTree ==
    /\ AtFinally
    /\ cleanup /\ repo_path # None
    /\ disk' = disk \ {repo_path}
    /\ deleted' = deleted \cup {repo_path}
    /\ clonePc' = AfterFinally
    /\ UNCHANGED <<scanArgs, repoTree, diskBefore, target, repo_path, cleanup, console>>
    /\ UNCHANGED notCloneVars

SkipRemove ==
    /\ AtFinally
    /\ ~(cleanup /\ repo_path # None)
    /\ clonePc' = AfterFinally
    /\ UNCHANGED <<scanArgs, repoTree, diskBefore, disk, target, repo_path, cleanup, deleted, console>>
    /\ UNCHANGED notCloneVars

NextClone ==
    \/ UseLocalPath
    \/ MakeTempDir
    \/ CloneSucceeds
    \/ CloneFails
    \/ ScanAndPrintJson
    \/ ScanAndPrintText
    \/ ScanRaises
    \/ RetainClone
    \/ SkipRetain
    \/ RemoveTree
    \/ SkipRemove

SpecClone == InitClone /\ [][NextClone]_vars

Exited == clonePc \in {"returned", "raised"}

\* C22: main never deletes a directory supplied by the user: the recursive
\* delete is applied only to the temporary directory this run created, and
\* every directory that existed before the run, the repository argument
\* included, is still in place, on every path and at every exit.
C22_UserDirectoryKept ==
    /\ \A d \in deleted : d = target /\ d \notin diskBefore
    /\ diskBefore \subseteq disk

\* An existing local path was given, the scan raised inside the try
\* statement, the finally clause has run and the path is still there.
C22_Witness ==
    /\ clonePc = "raised"
    /\ scanArgs.repo_url \in diskBefore
    /\ repo_path = scanArgs.repo_url
    /\ scanArgs.repo_url \in disk

\* main is one sequential run: whenever it has a next step, it takes it.
SpecCloneFair == SpecClone /\ WF_vars(NextClone)

\* C23: when the repository argument names no existing path and --keep-clone
\* is not given, the temporary directory created for the clone is eventually
\* removed, whichever way main ends: by return, by an exception during the
\* scan or the output, or by a failed clone.
C23_TempDirEventuallyRemoved ==
    (target # None /\ ~scanArgs.keep_clone) ~> (target \notin disk)

====
